---- MODULE Spec2Model ----
(***************************************************************************)
(* A model of react-hook-useagent: the User-Agent string extractors, the   *)
(* Client Hints extractor with its asynchronous high-entropy path, the     *)
(* structural equality of agents and the useUserAgent hook.                *)
(*                                                                         *)
(* JavaScript values are represented as follows.                           *)
(*   - a string is a TLA+ string; `undefined` where a string is expected   *)
(*     is NoStr, `null` returned by String.match is NoMatch;               *)
(*   - an object is a record; `undefined` where an object is expected is   *)
(*     Undefined;                                                          *)
(*   - an array is a sequence; `undefined` where an array of brands is     *)
(*     expected is NoBrands, where an array of hints is expected NoHints;  *)
(*   - an optional number is <<>> (undefined) or <<n>>;                    *)
(*   - a property that is missing and a property that holds `undefined`    *)
(*     are the same value: no code of the repository tells them apart.     *)
(***************************************************************************)
EXTENDS Integers, Sequences, FiniteSets, TLC

VARIABLES
    arg,        \* input of the extractor under call (pure-function specifications)
    ret,        \* what the called extractor returned
    env,        \* the environment of the hook: window, navigator, options
    pc,         \* position of the hook's effect / detectAgent
    agent,      \* the state held by useState
    captured,   \* the `agent` the effect closure captured at mount
    low,        \* lowEntropyAgent of the running detectFromClientHints call
    request,    \* state of the getHighEntropyValues promise
    timer,      \* state of the 5 second timer
    race,       \* state of the Promise.race promise
    jobs,       \* reactions queued on the race promise
    result,     \* state of the promise returned by detectFromClientHints
    trace       \* observations: calls of extractors, of setAgent, of getHighEntropyValues

vars == <<arg, ret, env, pc, agent, captured, low, request, timer, race, jobs, result, trace>>

----------------------------------------------------------------------------
(* Bounds *)

MaxUALen == 3
MaxTouchPoints == 2
\* the most single-field changes made to the results under comparison
MaxEdits == 1

\* re-renders of the mounted component
MaxRenders == 2

\* entries of a brands array
MaxBrands == 3

----------------------------------------------------------------------------
(* JavaScript values *)

NoStr == "<undefined>"
NoMatch == "<null>"
Undefined == [undefined |-> TRUE]

IsDefined(o) == o # Undefined

NoBrands == <<Undefined>>
NoHints == <<NoStr>>

\* !s || typeof s !== 'string' is false exactly for the non-empty strings
NonStrings == {NoStr, NoMatch}
IsNonEmptyString(s) == s \notin NonStrings /\ s # ""

\* String(v): as RegExp.prototype.test coerces its argument
StringOf(v) == IF v = NoStr THEN "undefined" ELSE IF v = NoMatch THEN "null" ELSE v

\* the outcome of a block that threw instead of returning an object
Thrown == [thrown |-> TRUE]

\* try { return outcome } catch { return handler }
TryCatch(outcome, handler) == IF outcome = Thrown THEN handler ELSE outcome

----------------------------------------------------------------------------
(* Strings and the regular expressions of the source.  Every pattern of    *)
(* the source is a literal, optionally case-insensitive, optionally        *)
(* followed by the capture group ([0-9.]+).                                *)

Char(s, i) == SubSeq(s, i, i)

LowerChar(c) ==
    CASE c = "A" -> "a" [] c = "B" -> "b" [] c = "C" -> "c" [] c = "D" -> "d"
      [] c = "E" -> "e" [] c = "F" -> "f" [] c = "G" -> "g" [] c = "H" -> "h"
      [] c = "I" -> "i" [] c = "J" -> "j" [] c = "K" -> "k" [] c = "L" -> "l"
      [] c = "M" -> "m" [] c = "N" -> "n" [] c = "O" -> "o" [] c = "P" -> "p"
      [] c = "Q" -> "q" [] c = "R" -> "r" [] c = "S" -> "s" [] c = "T" -> "t"
      [] c = "U" -> "u" [] c = "V" -> "v" [] c = "W" -> "w" [] c = "X" -> "x"
      [] c = "Y" -> "y" [] c = "Z" -> "z" [] OTHER -> c

RECURSIVE toLowerCase(_)
\* character by character; the string is halved to keep the recursion shallow
toLowerCase(s) ==
    IF s = "" THEN ""
    ELSE IF Len(s) = 1 THEN LowerChar(s)
    ELSE LET half == Len(s) \div 2
         IN  toLowerCase(SubSeq(s, 1, half)) \o toLowerCase(SubSeq(s, half + 1, Len(s)))

\* String.prototype.includes(lit), and /lit/.test(s)
includes(s, lit) ==
    \E i \in 1..(Len(s) - Len(lit) + 1) : SubSeq(s, i, i + Len(lit) - 1) = lit

\* /lit/.test(s)
Test(lit, s) == includes(s, lit)

\* /lit/i.test(s)
TestI(lit, s) == includes(toLowerCase(s), toLowerCase(lit))

IsVersionChar(c) == c \in {"0", "1", "2", "3", "4", "5", "6", "7", "8", "9", "."}

RECURSIVE RunEnd(_, _)
\* last index of the greedy run [0-9.]+ that starts at index j
RunEnd(s, j) ==
    IF j + 1 <= Len(s) /\ IsVersionChar(Char(s, j + 1)) THEN RunEnd(s, j + 1) ELSE j

\* s.match(/lit([0-9.]+)/): group 1 of the leftmost match, or NoMatch (null)
MatchVersion(lit, s) ==
    LET starts == {i \in 1..(Len(s) - Len(lit)) :
                      /\ SubSeq(s, i, i + Len(lit) - 1) = lit
                      /\ IsVersionChar(Char(s, i + Len(lit)))}
    IN  IF starts = {} THEN NoMatch
        ELSE LET i == CHOOSE k \in starts : \A m \in starts : k <= m
                 b == i + Len(lit)
             IN  SubSeq(s, b, RunEnd(s, b))

----------------------------------------------------------------------------
(* constants/patterns.ts *)

BROWSER_PATTERNS == <<
    [name |-> "Edge",             pattern |-> "Edg/",            versionPattern |-> "Edg/"],
    [name |-> "Samsung Internet", pattern |-> "SamsungBrowser/", versionPattern |-> "SamsungBrowser/"],
    [name |-> "Vivaldi",          pattern |-> "Vivaldi/",        versionPattern |-> "Vivaldi/"],
    [name |-> "Opera15+",         pattern |-> "OPR/",            versionPattern |-> "OPR/"],
    [name |-> "Chrome",           pattern |-> "Chrome/",         versionPattern |-> "Chrome/"],
    [name |-> "Chromium",         pattern |-> "Chromium/",       versionPattern |-> "Chromium/"],
    [name |-> "Firefox",          pattern |-> "Firefox/",        versionPattern |-> "Firefox/"],
    [name |-> "Seamonkey",        pattern |-> "Seamonkey/",      versionPattern |-> "Seamonkey/"],
    [name |-> "Safari",           pattern |-> "Safari/",         versionPattern |-> "Version/"],
    [name |-> "Opera12-",         pattern |-> "Opera/",          versionPattern |-> "Opera/"] >>

\* Firefox listed with the Chromium browsers as well
CHROMIUM_BROWSERSWithFirefox ==
    {"Chrome", "Chromium", "Edge", "Brave", "Samsung Internet", "Vivaldi", "Opera15+", "Firefox"}

CHROMIUM_BROWSERS ==
    {"Chrome", "Chromium", "Edge", "Brave", "Samsung Internet", "Vivaldi", "Opera15+"}

GECKO_BROWSERS == {"Firefox", "Seamonkey"}

WEBKIT_BROWSERS == {"Safari"}

----------------------------------------------------------------------------
(* types *)

BrowserInfo(name, version, fullVersion) ==
    [name |-> name, version |-> version, fullVersion |-> fullVersion]

DeviceInfo(isMobile, platform, device) ==
    [isMobile |-> isMobile, platform |-> platform, device |-> device,
     architecture |-> NoStr, model |-> NoStr, platformVersion |-> NoStr]

RenderingEngineInfo(name, version) == [name |-> name, version |-> version]

Navigator(userAgent, maxTouchPoints, brave) ==
    [userAgent |-> userAgent, maxTouchPoints |-> maxTouchPoints, brave |-> brave]

----------------------------------------------------------------------------
(* detectors/userAgentString.ts *)

\* the Chrome entry is skipped when another Chromium browser's token is present
isOtherChromium(userAgent) ==
    \/ Test("Edg/", userAgent)
    \/ Test("SamsungBrowser/", userAgent)
    \/ Test("Vivaldi/", userAgent)
    \/ Test("OPR/", userAgent)

\* the `continue` conditions of the catalog loop
SkipPattern(name, userAgent) ==
    \/ name = "Chrome" /\ isOtherChromium(userAgent)
    \/ name = "Firefox" /\ Test("Seamonkey/", userAgent)

\* the version always read from the Chrome token, as the Brave branch does
ExtractVersionOfChrome(versionPattern, userAgent) ==
    LET versionMatch == MatchVersion("Chrome/", userAgent)
    IN  IF versionMatch # NoMatch THEN versionMatch ELSE "Unknown"

\* version = "Unknown" unless the entry's versionPattern matches
ExtractVersion(versionPattern, userAgent) ==
    LET versionMatch == MatchVersion(versionPattern, userAgent)
    IN  IF versionMatch # NoMatch THEN versionMatch ELSE "Unknown"

RECURSIVE ScanBrowserPatterns(_, _)
\* the for loop over BROWSER_PATTERNS, from entry i on
ScanBrowserPatterns(userAgent, i) ==
    IF i > Len(BROWSER_PATTERNS) THEN Undefined
    ELSE LET p == BROWSER_PATTERNS[i]
         IN  IF Test(p.pattern, userAgent) /\ ~SkipPattern(p.name, userAgent)
             THEN BrowserInfo(p.name, ExtractVersion(p.versionPattern, userAgent), NoStr)
             ELSE ScanBrowserPatterns(userAgent, i + 1)

detectBrowser(navigator) ==
    LET userAgent == navigator.userAgent
    IN  IF ~IsNonEmptyString(userAgent) THEN Undefined
        ELSE IF navigator.brave
             THEN BrowserInfo("Brave", ExtractVersion("Chrome/", userAgent), NoStr)
             ELSE ScanBrowserPatterns(userAgent, 1)

\* the Chromium browsers of the brands table counted as Blink as well
EngineNameOfBrands(browser) ==
    IF browser \in CHROMIUM_BROWSERS \cup {"Opera", "Arc"} THEN "Blink"
    ELSE IF browser \in GECKO_BROWSERS THEN "Gecko"
    ELSE IF browser \in WEBKIT_BROWSERS THEN "WebKit"
    ELSE NoStr

\* the family of a browser name, or NoStr when it belongs to none
EngineNameOf(browser) ==
    IF browser \in CHROMIUM_BROWSERS THEN "Blink"
    ELSE IF browser \in GECKO_BROWSERS THEN "Gecko"
    ELSE IF browser \in WEBKIT_BROWSERS THEN "WebKit"
    ELSE NoStr

\* version of the engine; userAgent is "" when no navigator is given
EngineVersion(engineName, userAgent) ==
    LET FirstOf(a, b) == IF a # NoMatch THEN a ELSE b
        match == CASE engineName = "Blink" ->
                          FirstOf(MatchVersion("Chrome/", userAgent),
                                  MatchVersion("Chromium/", userAgent))
                   [] engineName = "Gecko" -> MatchVersion("rv:", userAgent)
                   [] engineName = "WebKit" -> MatchVersion("AppleWebKit/", userAgent)
    IN  IF userAgent # "" /\ match # NoMatch THEN match ELSE "Unknown"

\* WebKit for a browser of no family
detectRenderingEngineOrWebKit(browser, navigator) ==
    IF browser = NoStr \/ browser = "" THEN Undefined
    ELSE LET userAgent == IF IsDefined(navigator) /\ IsNonEmptyString(navigator.userAgent)
                          THEN navigator.userAgent ELSE ""
             engineName == EngineNameOf(browser)
         IN  IF engineName = NoStr
             THEN RenderingEngineInfo("WebKit", EngineVersion("WebKit", userAgent))
             ELSE RenderingEngineInfo(engineName, EngineVersion(engineName, userAgent))

\* browser is a browser name or NoStr; navigator is a navigator or Undefined
detectRenderingEngine(browser, navigator) ==
    IF browser = NoStr \/ browser = "" THEN Undefined
    ELSE LET userAgent == IF IsDefined(navigator) /\ IsNonEmptyString(navigator.userAgent)
                          THEN navigator.userAgent ELSE ""
             engineName == EngineNameOf(browser)
         IN  IF engineName = NoStr THEN Undefined
             ELSE RenderingEngineInfo(engineName, EngineVersion(engineName, userAgent))

----------------------------------------------------------------------------
(* detectors/device.ts *)

\* the threshold one touch point too low
MultiTouchAtLeastOne(navigator) ==
    navigator.maxTouchPoints # <<>> /\ navigator.maxTouchPoints[1] >= 1

\* navigator.maxTouchPoints && navigator.maxTouchPoints > 1
MultiTouch(navigator) ==
    navigator.maxTouchPoints # <<>> /\ navigator.maxTouchPoints[1] > 1

\* no structure when no platform token matched
DefaultDeviceAbsent == Undefined

\* let platform = "Unknown"; let device = "Unknown"; let isMobile = false
DefaultDevice == DeviceInfo(FALSE, "Unknown", "Unknown")

\* the Linux check moved in front of the Android check
detectDeviceFromUALinuxFirst(navigator) ==
    LET userAgent == navigator.userAgent
        mobile == TestI("Mobile", userAgent)
    IN  IF ~IsNonEmptyString(userAgent) THEN Undefined
        ELSE IF TestI("Linux", userAgent)
             THEN DeviceInfo(mobile, "Linux", IF mobile THEN "Unknown" ELSE "Desktop PC")
        ELSE IF TestI("Android", userAgent)
             THEN DeviceInfo(mobile, "Android", IF mobile THEN "Android" ELSE "Tablet")
        ELSE IF TestI("iPhone", userAgent) THEN DeviceInfo(TRUE, "iOS", "iPhone")
        ELSE IF TestI("iPad", userAgent) THEN DeviceInfo(FALSE, "iOS", "iPad")
        ELSE IF TestI("iPod", userAgent) THEN DeviceInfo(TRUE, "iOS", "iPod")
        ELSE IF TestI("Win", userAgent)
             THEN DeviceInfo(mobile, "Windows", IF mobile THEN "Unknown" ELSE "Desktop PC")
        ELSE IF TestI("Mac", userAgent)
             THEN IF MultiTouch(navigator)
                  THEN DeviceInfo(FALSE, "iOS", "iPad")
                  ELSE DeviceInfo(FALSE, "Mac OS", "Desktop PC")
        ELSE IF TestI("CrOS", userAgent) THEN DeviceInfo(FALSE, "Chrome OS", "Desktop PC")
        ELSE DeviceInfo(FALSE, "Unknown", "Unknown")

detectDeviceFromUA(navigator) ==
    LET userAgent == navigator.userAgent
        mobile == TestI("Mobile", userAgent)
    IN  IF ~IsNonEmptyString(userAgent) THEN Undefined
        ELSE IF TestI("Android", userAgent)
             THEN DeviceInfo(mobile, "Android", IF mobile THEN "Android" ELSE "Tablet")
        ELSE IF TestI("iPhone", userAgent) THEN DeviceInfo(TRUE, "iOS", "iPhone")
        ELSE IF TestI("iPad", userAgent) THEN DeviceInfo(FALSE, "iOS", "iPad")
        ELSE IF TestI("iPod", userAgent) THEN DeviceInfo(TRUE, "iOS", "iPod")
        ELSE IF TestI("Win", userAgent)
             THEN DeviceInfo(mobile, "Windows", IF mobile THEN "Unknown" ELSE "Desktop PC")
        ELSE IF TestI("Mac", userAgent)
             THEN IF MultiTouch(navigator)
                  THEN DeviceInfo(FALSE, "iOS", "iPad")
                  ELSE DeviceInfo(FALSE, "Mac OS", "Desktop PC")
        ELSE IF TestI("CrOS", userAgent) THEN DeviceInfo(FALSE, "Chrome OS", "Desktop PC")
        ELSE IF TestI("Linux", userAgent)
             THEN DeviceInfo(mobile, "Linux", IF mobile THEN "Unknown" ELSE "Desktop PC")
        ELSE DefaultDevice

\* userAgentString.ts: detectDevice delegates to detectDeviceFromUA
detectDevice(navigator) == detectDeviceFromUA(navigator)

\* the mobile flag checked before the tablet devices
getDeviceTypeClassificationMobileFirst(isMobile, device) ==
    IF isMobile THEN "mobile"
    ELSE IF device = "Tablet" \/ device = "iPad" THEN "tablet"
    ELSE "desktop"

getDeviceTypeClassification(isMobile, device) ==
    IF device = "Tablet" \/ device = "iPad" THEN "tablet"
    ELSE IF isMobile THEN "mobile"
    ELSE "desktop"

\* a mapping that compares the platform string as it is written
mapPlatformAsWritten(platformString) ==
    LET platformLower == platformString
    IN  IF includes(platformLower, "android") THEN "Android"
        ELSE IF includes(platformLower, "windows") THEN "Windows"
        ELSE IF includes(platformLower, "mac") THEN "Mac OS"
        ELSE IF includes(platformLower, "linux") THEN "Linux"
        ELSE IF includes(platformLower, "chrome os") \/ includes(platformLower, "chromeos")
             THEN "Chrome OS"
        ELSE IF \/ includes(platformLower, "ios")
                \/ includes(platformLower, "iphone")
                \/ includes(platformLower, "ipad")
             THEN "iOS"
        ELSE "Unknown"

mapPlatform(platformString) ==
    LET platformLower == toLowerCase(platformString)
    IN  IF includes(platformLower, "android") THEN "Android"
        ELSE IF includes(platformLower, "windows") THEN "Windows"
        ELSE IF includes(platformLower, "mac") THEN "Mac OS"
        ELSE IF includes(platformLower, "linux") THEN "Linux"
        ELSE IF includes(platformLower, "chrome os") \/ includes(platformLower, "chromeos")
             THEN "Chrome OS"
        ELSE IF \/ includes(platformLower, "ios")
                \/ includes(platformLower, "iphone")
                \/ includes(platformLower, "ipad")
             THEN "iOS"
        ELSE "Unknown"

\* every iOS device taken for an iPad
determineDeviceAlwaysIPad(isMobile, platform) ==
    IF platform = "Android" THEN (IF isMobile THEN "Android" ELSE "Tablet")
    ELSE IF platform = "iOS" THEN "iPad"
    ELSE IF isMobile THEN "Unknown"
    ELSE "Desktop PC"

determineDevice(isMobile, platform) ==
    IF platform = "Android" THEN (IF isMobile THEN "Android" ELSE "Tablet")
    ELSE IF platform = "iOS" THEN (IF isMobile THEN "iPhone" ELSE "iPad")
    ELSE IF isMobile THEN "Unknown"
    ELSE "Desktop PC"

\* the try block of detectDeviceFromClientHints: reading a property of
\* undefined throws, and so does toLowerCase of a platform that is no string
DeviceFromClientHints(userAgentData) ==
    IF ~IsDefined(userAgentData) THEN Thrown
    ELSE IF userAgentData.platform \in NonStrings THEN Thrown
    ELSE LET platform == mapPlatform(userAgentData.platform)
             isMobile == userAgentData.mobile
         IN  DeviceInfo(isMobile, platform, determineDevice(isMobile, platform))

\* detectDeviceFromClientHints without its catch block
detectDeviceFromClientHintsNoCatch(userAgentData) == DeviceFromClientHints(userAgentData)

\* the catch block returns the default device
detectDeviceFromClientHints(userAgentData) ==
    TryCatch(DeviceFromClientHints(userAgentData), DeviceInfo(FALSE, "Unknown", "Unknown"))

\* the results are wrapped as {result}: a boolean is no object
isIPad(navigator) ==
    LET userAgent == StringOf(navigator.userAgent)
    IN  [result |-> \/ TestI("iPad", userAgent)
                    \/ TestI("Macintosh", userAgent) /\ MultiTouch(navigator)]

isAndroidTablet(userAgent) ==
    [result |-> TestI("Android", StringOf(userAgent)) /\ ~TestI("Mobile", StringOf(userAgent))]

----------------------------------------------------------------------------
(* utils/comparison.ts.  The `a === b` shortcuts compare references; two   *)
(* references to one object hold the same fields, so the shortcut returns  *)
(* what the field comparison returns and objects are compared by value.    *)
(* Of `!a || !b` only the undefined case arises: the results are objects.  *)

\* an absent device taken for equal to any device
areDeviceInfoEqualAbsentEither(a, b) ==
    IF ~IsDefined(a) \/ ~IsDefined(b) THEN TRUE
    ELSE /\ a.isMobile = b.isMobile
         /\ a.platform = b.platform
         /\ a.device = b.device
         /\ a.architecture = b.architecture
         /\ a.model = b.model
         /\ a.platformVersion = b.platformVersion

areDeviceInfoEqual(a, b) ==
    IF ~IsDefined(a) \/ ~IsDefined(b) THEN a = b
    ELSE /\ a.isMobile = b.isMobile
         /\ a.platform = b.platform
         /\ a.device = b.device
         /\ a.architecture = b.architecture
         /\ a.model = b.model
         /\ a.platformVersion = b.platformVersion

\* the optional fullVersion left out of the comparison
areBrowserInfoEqualNoFullVersion(a, b) ==
    IF ~IsDefined(a) \/ ~IsDefined(b) THEN a = b
    ELSE /\ a.name = b.name
         /\ a.version = b.version

areBrowserInfoEqual(a, b) ==
    IF ~IsDefined(a) \/ ~IsDefined(b) THEN a = b
    ELSE /\ a.name = b.name
         /\ a.version = b.version
         /\ a.fullVersion = b.fullVersion

areRenderingEngineInfoEqual(a, b) ==
    IF ~IsDefined(a) \/ ~IsDefined(b) THEN a = b
    ELSE /\ a.name = b.name
         /\ a.version = b.version

areAgentsEqual(a, b) ==
    IF a.detectionMethod # b.detectionMethod THEN FALSE
    ELSE IF a.deviceType # b.deviceType THEN FALSE
    ELSE IF ~areDeviceInfoEqual(a.device, b.device) THEN FALSE
    ELSE IF ~areBrowserInfoEqual(a.browser, b.browser) THEN FALSE
    ELSE IF ~areRenderingEngineInfoEqual(a.renderingEngine, b.renderingEngine) THEN FALSE
    ELSE TRUE

----------------------------------------------------------------------------
(* detectors/clientHints.ts *)

Agent(device, browser, renderingEngine, detectionMethod, deviceType) ==
    [device |-> device, browser |-> browser, renderingEngine |-> renderingEngine,
     detectionMethod |-> detectionMethod, deviceType |-> deviceType]

\* { device: undefined, browser: undefined, renderingEngine: undefined, detectionMethod }
MinimalAgent(detectionMethod) == Agent(Undefined, Undefined, Undefined, detectionMethod, NoStr)

\* a table that tries the generic brands first
browserMapGenericFirst == <<
    [pattern |-> "Google Chrome",    name |-> "Chrome"],
    [pattern |-> "Chromium",         name |-> "Chromium"],
    [pattern |-> "Microsoft Edge",   name |-> "Edge"],
    [pattern |-> "Brave",            name |-> "Brave"],
    [pattern |-> "Samsung Internet", name |-> "Samsung Internet"],
    [pattern |-> "Vivaldi",          name |-> "Vivaldi"],
    [pattern |-> "Arc",              name |-> "Arc"],
    [pattern |-> "Opera",            name |-> "Opera"] >>

\* the priority order of extractBrowserFromBrands
browserMap == <<
    [pattern |-> "Microsoft Edge",   name |-> "Edge"],
    [pattern |-> "Brave",            name |-> "Brave"],
    [pattern |-> "Samsung Internet", name |-> "Samsung Internet"],
    [pattern |-> "Vivaldi",          name |-> "Vivaldi"],
    [pattern |-> "Arc",              name |-> "Arc"],
    [pattern |-> "Opera",            name |-> "Opera"],
    [pattern |-> "Google Chrome",    name |-> "Chrome"],
    [pattern |-> "Chromium",         name |-> "Chromium"] >>

\* brands.find(pred): the first element satisfying pred, or Undefined; hits
\* is the set of the indices whose element satisfies pred
Find(brands, hits) ==
    IF hits = {} THEN Undefined
    ELSE brands[CHOOSE i \in hits : \A j \in hits : i <= j]

RECURSIVE ScanBrowserMap(_, _)
\* the for loop over browserMap, from entry i on, then the fallback
\* b.brand.includes of a brand that is no string throws: the fallback throws
\* when find reaches such a brand before a brand that satisfies it
ScanBrowserMap(brands, i) ==
    IF i > Len(browserMap)
    THEN LET noString == {k \in 1..Len(brands) : brands[k].brand \in NonStrings}
             hits == {k \in 1..Len(brands) :
                         /\ brands[k].brand \notin NonStrings
                         /\ ~includes(brands[k].brand, "Not")
                         /\ brands[k].brand # "Chromium"}
             nonGenericBrand == Find(brands, hits)
         IN  IF \E k \in noString : \A h \in hits : k < h THEN Thrown
             ELSE IF IsDefined(nonGenericBrand)
             THEN BrowserInfo("Unknown", nonGenericBrand.version, NoStr)
             ELSE Undefined
    ELSE LET match ==
                 Find(brands, {k \in 1..Len(brands) :
                                  TestI(browserMap[i].pattern, StringOf(brands[k].brand))})
         IN  IF IsDefined(match)
             THEN BrowserInfo(browserMap[i].name, match.version, NoStr)
             ELSE ScanBrowserMap(brands, i + 1)

\* brands is an array of {brand, version}, or NoBrands
extractBrowserFromBrands(brands) ==
    IF brands = NoBrands \/ Len(brands) = 0 THEN Undefined
    ELSE TryCatch(ScanBrowserMap(brands, 1), Undefined)

\* the try block of extractLowEntropyData; userAgentData.brandsThrows: reading
\* the brands property throws; what a callee throws propagates
LowEntropyData(userAgentData) ==
    IF userAgentData.brandsThrows THEN Thrown
    ELSE LET browser == extractBrowserFromBrands(userAgentData.brands)
             device == detectDeviceFromClientHints(userAgentData)
         IN  IF browser = Thrown \/ device = Thrown THEN Thrown
             ELSE Agent(device, browser, Undefined, "client-hints",
                        getDeviceTypeClassification(device.isMobile, device.device))

\* the catch block returns the minimal agent
extractLowEntropyData(userAgentData) ==
    TryCatch(LowEntropyData(userAgentData), MinimalAgent("client-hints"))

\* a response whose list is never looked at
NoFullVersionList(list) == FALSE

\* highEntropyValues.fullVersionList && highEntropyValues.fullVersionList.length > 0
HasFullVersionList(list) == list # NoBrands /\ Len(list) > 0

\* a merge that copies uaFullVersion whatever it is
mergeHighEntropyDataAnyFullVersion(a, highEntropyValues) ==
    LET withDevice ==
            IF IsDefined(a.device)
            THEN [a EXCEPT !.device =
                     [a.device EXCEPT !.architecture = highEntropyValues.architecture,
                                      !.model = highEntropyValues.model,
                                      !.platformVersion = highEntropyValues.platformVersion]]
            ELSE a
        withFullVersion ==
            IF IsDefined(a.browser)
            THEN [withDevice EXCEPT !.browser =
                     [a.browser EXCEPT !.fullVersion = highEntropyValues.uaFullVersion]]
            ELSE withDevice
        list == highEntropyValues.fullVersionList
        browser == extractBrowserFromBrands(list)
    IN  IF HasFullVersionList(list) /\ IsDefined(browser)
        THEN [withFullVersion EXCEPT !.browser =
                 [browser EXCEPT !.fullVersion = highEntropyValues.uaFullVersion]]
        ELSE withFullVersion

mergeHighEntropyData(a, highEntropyValues) ==
    LET withDevice ==
            IF IsDefined(a.device)
            THEN [a EXCEPT !.device =
                     [a.device EXCEPT !.architecture = highEntropyValues.architecture,
                                      !.model = highEntropyValues.model,
                                      !.platformVersion = highEntropyValues.platformVersion]]
            ELSE a
        withFullVersion ==
            IF IsDefined(a.browser) /\ highEntropyValues.uaFullVersion \notin {NoStr, ""}
            THEN [withDevice EXCEPT !.browser =
                     [a.browser EXCEPT !.fullVersion = highEntropyValues.uaFullVersion]]
            ELSE withDevice
        list == highEntropyValues.fullVersionList
        browser == extractBrowserFromBrands(list)
    IN  IF HasFullVersionList(list) /\ IsDefined(browser)
        THEN [withFullVersion EXCEPT !.browser =
                 [browser EXCEPT !.fullVersion = highEntropyValues.uaFullVersion]]
        ELSE withFullVersion

\* the call of detectFromClientHints up to its return: the low-entropy result,
\* and whether it is returned as such or handed to getHighEntropyData
detectFromClientHints(userAgentData, options) ==
    IF ~IsDefined(userAgentData)
    THEN [async |-> FALSE, agent |-> MinimalAgent("client-hints")]
    ELSE [async |-> IsDefined(options) /\ options.highEntropy,
          agent |-> extractLowEntropyData(userAgentData)]

DefaultHints == <<"architecture", "model", "platformVersion", "uaFullVersion">>

\* the default set used for an empty list of hints as well
HintsOfIfAny(options) ==
    IF options.hints # NoHints /\ Len(options.hints) > 0 THEN options.hints ELSE DefaultHints

\* options.hints || [...]
HintsOf(options) == IF options.hints # NoHints THEN options.hints ELSE DefaultHints

\* options?.highEntropy
HighEntropyRequested(options) == IsDefined(options) /\ options.highEntropy

----------------------------------------------------------------------------
(* Promises.  A promise is pending, fulfilled with a value or rejected     *)
(* with a reason; values are records and reasons are strings.              *)

Null == [null |-> TRUE]

Pending == [state |-> "pending", value |-> Undefined, reason |-> ""]
Fulfilled(v) == [state |-> "fulfilled", value |-> v, reason |-> ""]
Rejected(r) == [state |-> "rejected", value |-> Undefined, reason |-> r]
NoPromise == [state |-> "none", value |-> Undefined, reason |-> ""]

\* a promise that every settlement overwrites
PromiseSettleLast(p, outcome) == IF p.state = "none" THEN p ELSE outcome

\* resolve/reject of a promise: only the first settlement takes effect
PromiseSettle(p, outcome) == IF p.state = "pending" THEN outcome ELSE p

\* getHighEntropyData without its catch block: the rejection propagates
ResumeHighEntropyNoCatch(lowEntropyAgent, settled) ==
    IF settled.state = "rejected" THEN Rejected(settled.reason)
    ELSE IF settled.value = Null THEN Fulfilled(lowEntropyAgent)
    ELSE Fulfilled(mergeHighEntropyData(lowEntropyAgent, settled.value))

\* getHighEntropyData after its await: the value it returns, given how the
\* race settled
ResumeHighEntropy(lowEntropyAgent, settled) ==
    IF settled.state = "rejected" THEN Fulfilled(lowEntropyAgent)
    ELSE IF settled.value = Null THEN Fulfilled(lowEntropyAgent)
    ELSE Fulfilled(mergeHighEntropyData(lowEntropyAgent, settled.value))

----------------------------------------------------------------------------
(* useUserAgent.ts *)

\* an initial value that names a detection method
InitialAgentWithMethod == MinimalAgent("client-hints")

\* useState's initial value
InitialAgent == Agent(Undefined, Undefined, Undefined, NoStr, NoStr)

\* an effect that parses the User-Agent string whenever there is one
DetectionPathStringFirst(e) ==
    IF e.ssr THEN "ssr"
    ELSE IF IsNonEmptyString(e.navigator.userAgent) THEN "user-agent-string"
    ELSE IF IsDefined(e.userAgentData) THEN "client-hints"
    ELSE "user-agent-string"

\* which branch of the effect runs: isSSR(), then navigator.userAgentData
DetectionPath(e) ==
    IF e.ssr THEN "ssr"
    ELSE IF IsDefined(e.userAgentData) THEN "client-hints"
    ELSE "user-agent-string"

\* the extractors a branch of the effect calls
ExtractorsOf(path) ==
    CASE path = "ssr" -> {}
      [] path = "client-hints" -> {"detectFromClientHints"}
      [] path = "user-agent-string" ->
             {"detectBrowser", "detectDevice", "detectRenderingEngine"}

\* a fallback branch that classifies by the platform of the device
UserAgentStringAgentByPlatform(navigator) ==
    LET browser == detectBrowser(navigator)
        device == detectDevice(navigator)
        renderingEngine ==
            detectRenderingEngine(IF IsDefined(browser) THEN browser.name ELSE NoStr,
                                  navigator)
    IN  Agent(device, browser, renderingEngine, "user-agent-string",
              IF IsDefined(device)
              THEN getDeviceTypeClassification(device.isMobile, device.platform)
              ELSE NoStr)

\* the fallback branch of detectAgent
UserAgentStringAgent(navigator) ==
    LET browser == detectBrowser(navigator)
        device == detectDevice(navigator)
        renderingEngine ==
            detectRenderingEngine(IF IsDefined(browser) THEN browser.name ELSE NoStr,
                                  navigator)
    IN  Agent(device, browser, renderingEngine, "user-agent-string",
              IF IsDefined(device)
              THEN getDeviceTypeClassification(device.isMobile, device.device)
              ELSE NoStr)

\* a gate whose setAgent call stores the agent already held
GatedSetAgentHeld(closureAgent, held, detected) == held

\* if (!areAgentsEqual(agent, detected)) setAgent(detected): the new held state
GatedSetAgent(closureAgent, held, detected) ==
    IF ~areAgentsEqual(closureAgent, detected) THEN detected ELSE held

\* the number of setAgent calls the gate makes: 0 or 1
GatedCalls(closureAgent, detected) ==
    IF ~areAgentsEqual(closureAgent, detected) THEN 1 ELSE 0

\* what the run has done so far: the calls of setAgent, the hints of each
\* getHighEntropyValues call, the extractors invoked, the runs of the effect
\* and the options of each re-render
NoTrace == [setAgent |-> 0, hints |-> <<>>, invoked |-> {}, runs |-> 0, rendered |-> <<>>]

Job(fn, settled) == [fn |-> fn, settled |-> settled]

\* a race without a timer
TimerNotSet == "none"

\* setTimeout(..., 5000) inside the race: the timer is armed
TimerSet == "armed"

\* the effect, up to its end or to the first await of detectAgent
RunEffect ==
    /\ pc = "mounted"
    /\ LET path == DetectionPath(env)
           sync == CASE path = "ssr" -> MinimalAgent("ssr")
                     [] path = "client-hints" -> extractLowEntropyData(env.userAgentData)
                     [] path = "user-agent-string" -> UserAgentStringAgent(env.navigator)
           async == path = "client-hints" /\ HighEntropyRequested(env.options)
       IN  /\ low' = IF path = "client-hints" THEN sync ELSE low
           /\ IF async
              THEN /\ pc' = "awaiting"
                   /\ request' = Pending
                   /\ timer' = TimerSet
                   /\ race' = Pending
                   /\ result' = Pending
                   /\ agent' = agent
                   /\ trace' = [trace EXCEPT !.invoked = @ \cup ExtractorsOf(path),
                                             !.runs = @ + 1,
                                             !.hints = Append(@, HintsOf(env.options))]
              ELSE /\ pc' = "done"
                   /\ agent' = GatedSetAgent(captured, agent, sync)
                   /\ trace' = [trace EXCEPT !.invoked = @ \cup ExtractorsOf(path),
                                             !.runs = @ + 1,
                                             !.setAgent = @ + GatedCalls(captured, sync)]
                   /\ UNCHANGED <<request, timer, race, result>>
    /\ UNCHANGED <<arg, ret, env, captured, jobs>>

\* one input of Promise.race settles: the race takes its outcome if still
\* pending, and then queues the continuation of getHighEntropyData
SettleRace(outcome) ==
    /\ race' = PromiseSettle(race, outcome)
    /\ jobs' = IF race' # race
               THEN Append(jobs, Job("getHighEntropyData", race'))
               ELSE jobs

\* getHighEntropyValues resolves with v
RequestResolve(v) ==
    /\ request.state = "pending"
    /\ request' = Fulfilled(v)
    /\ SettleRace(Fulfilled(v))
    /\ UNCHANGED <<arg, ret, env, pc, agent, captured, low, timer, result, trace>>

\* getHighEntropyValues rejects (or throws)
RequestReject ==
    /\ request.state = "pending"
    /\ request' = Rejected("NotAllowedError")
    /\ SettleRace(Rejected("NotAllowedError"))
    /\ UNCHANGED <<arg, ret, env, pc, agent, captured, low, timer, result, trace>>

\* setTimeout(() => reject(new Error('Timeout')), 5000)
TimerFire ==
    /\ timer = "armed"
    /\ timer' = "fired"
    /\ SettleRace(Rejected("Timeout"))
    /\ UNCHANGED <<arg, ret, env, pc, agent, captured, low, request, result, trace>>

\* getHighEntropyData continues after `await Promise.race` and returns
ResumeGetHighEntropyData ==
    /\ jobs # <<>>
    /\ Head(jobs).fn = "getHighEntropyData"
    /\ result' = PromiseSettle(result, ResumeHighEntropy(low, Head(jobs).settled))
    /\ jobs' = IF result' # result
               THEN Append(Tail(jobs), Job("detectAgent", result'))
               ELSE Tail(jobs)
    /\ UNCHANGED <<arg, ret, env, pc, agent, captured, low, request, timer, race, trace>>

\* detectAgent continues after `await result`
ResumeDetectAgent ==
    /\ jobs # <<>>
    /\ Head(jobs).fn = "detectAgent"
    /\ LET settled == Head(jobs).settled
       IN  IF settled.state = "fulfilled"
           THEN /\ pc' = "done"
                /\ agent' = GatedSetAgent(captured, agent, settled.value)
                /\ trace' = [trace EXCEPT !.setAgent = @ + GatedCalls(captured, settled.value)]
           ELSE /\ pc' = "rejected"
                /\ UNCHANGED <<agent, trace>>
    /\ jobs' = Tail(jobs)
    /\ UNCHANGED <<arg, ret, env, captured, low, request, timer, race, result>>

\* an effect that depends on the options of the hook
EffectDepsOptions(options) == <<options>>

\* the dependency array of the effect: []
EffectDeps(options) == <<>>

\* the options of the latest render
RenderedOptions ==
    IF trace.rendered = <<>> THEN env.options ELSE trace.rendered[Len(trace.rendered)]

\* the component renders again with options o: useState returns the held
\* agent, and the effect runs again, in the closure of this render, only if
\* a dependency changed
Rerender(o) ==
    /\ pc \in {"awaiting", "done", "rejected"}
    /\ Len(trace.rendered) < MaxRenders
    /\ trace' = [trace EXCEPT !.rendered = Append(@, o)]
    /\ IF EffectDeps(o) # EffectDeps(RenderedOptions)
       THEN /\ pc' = "mounted"
            /\ captured' = agent
            /\ env' = [env EXCEPT !.options = o]
       ELSE UNCHANGED <<pc, captured, env>>
    /\ UNCHANGED <<arg, ret, agent, low, request, timer, race, jobs, result>>

----------------------------------------------------------------------------
(* Inputs *)

\* fragments of User-Agent strings: the text, the catalog token it carries
\* and the version that follows the token (NoStr when none does)
Word(text, token, version) == [text |-> text, token |-> token, version |-> version]

BrowserWords == {
    Word("Chrome/120.0.0.0", "Chrome/", "120.0.0.0"),
    Word("Edg/119.0.0.0", "Edg/", "119.0.0.0"),
    Word("SamsungBrowser/23.0", "SamsungBrowser/", "23.0"),
    Word("Vivaldi/6.5", "Vivaldi/", "6.5"),
    Word("OPR/106.0", "OPR/", "106.0"),
    Word("OPR/beta", "OPR/", NoStr),
    Word("Chromium/118.0", "Chromium/", "118.0"),
    Word("Firefox/121.0", "Firefox/", "121.0"),
    Word("Seamonkey/2.53", "Seamonkey/", "2.53"),
    Word("Safari/604.1", "Safari/", NoStr),
    Word("Version/17.0", "Version/", "17.0"),
    Word("Opera/9.80", "Opera/", "9.80") }

PlatformWords == {
    Word("Android 13", "Android", NoStr),
    Word("Mobile", "Mobile", NoStr),
    Word("iPhone", "iPhone", NoStr),
    Word("iPad", "iPad", NoStr),
    Word("iPod", "iPod", NoStr),
    Word("Windows NT 10.0", "Win", NoStr),
    Word("Macintosh", "Mac", NoStr),
    Word("like Mac OS X", "Mac", NoStr),
    Word("CrOS x86_64", "CrOS", NoStr),
    Word("Linux", "Linux", NoStr),
    Word("X11", "", NoStr) }

\* the sequences over S of length at most n
SeqsUpTo(S, n) == UNION {[1..k -> S] : k \in 0..n}

RECURSIVE Join(_)
\* the texts of the words, separated by blanks
Join(words) ==
    IF words = <<>> THEN ""
    ELSE IF Len(words) = 1 THEN words[1].text
    ELSE words[1].text \o " " \o Join(Tail(words))

\* navigator.maxTouchPoints: undefined, or 0..MaxTouchPoints
TouchPoints == {<<>>} \cup {<<n>> : n \in 0..MaxTouchPoints}

\* navigators of the hook: one platform fragment, one or two browser fragments
HookNavigators ==
    {Navigator(NoStr, <<>>, FALSE), Navigator("", <<>>, FALSE)} \cup
    {Navigator(Join(<<p>> \o b), t, FALSE) :
        p \in {w \in PlatformWords : w.token \in {"Android", "Mac", "Win", "iPhone", ""}},
        b \in {<<Word("Chrome/120.0.0.0", "Chrome/", "120.0.0.0")>>,
               <<Word("Chrome/120.0.0.0", "Chrome/", "120.0.0.0"),
                 Word("Edg/119.0.0.0", "Edg/", "119.0.0.0")>>,
               <<Word("Firefox/121.0", "Firefox/", "121.0")>>,
               <<Word("Opera/9.80", "Opera/", "9.80")>>,
               <<Word("Mobile", "Mobile", NoStr)>>},
        t \in TouchPoints}

Brand(brand, version) == [brand |-> brand, version |-> version]

\* brands arrays of navigator.userAgentData
BrandLists == {
    <<>>,
    <<Brand("Not A;Brand", "99")>>,
    <<Brand("Chromium", "120"), Brand("Google Chrome", "121"), Brand("Not A;Brand", "99")>>,
    <<Brand("Chromium", "120"), Brand("Microsoft Edge", "119")>>,
    <<Brand("Foo Browser", "7")>>,
    <<Brand("Not A;Brand", "99"), Brand("Google Chrome", "")>> }

UserAgentData(brands, mobile, platform, brandsThrows) ==
    [brands |-> brands, mobile |-> mobile, platform |-> platform,
     brandsThrows |-> brandsThrows]

HookUserAgentData ==
    {UserAgentData(<<>>, FALSE, "Windows", TRUE)} \cup
    {UserAgentData(b, m, p, FALSE) :
        b \in BrandLists, m \in BOOLEAN, p \in {"Android", "macOS", "iOS", "Fuchsia"}}

\* the options of the hook: none, low entropy, high entropy without hints,
\* with an empty list of hints and with one hint
HookOptions == {
    Undefined,
    [highEntropy |-> FALSE, hints |-> NoHints],
    [highEntropy |-> TRUE, hints |-> NoHints],
    [highEntropy |-> TRUE, hints |-> <<>>],
    [highEntropy |-> TRUE, hints |-> <<"model">>] }

UADataValues(architecture, model, platformVersion, uaFullVersion, fullVersionList) ==
    [architecture |-> architecture, model |-> model, platformVersion |-> platformVersion,
     uaFullVersion |-> uaFullVersion, fullVersionList |-> fullVersionList]

\* what getHighEntropyValues may resolve with
Responses ==
    {Null} \cup
    {UADataValues(a, m, pv, fv, l) :
        a \in {NoStr, "arm"}, m \in {NoStr, "Pixel 7"}, pv \in {NoStr, "13.0.0"},
        fv \in {NoStr, "", "120.0.6099.71"},
        l \in {NoBrands, <<>>, <<Brand("Not A;Brand", "99.0.0.0")>>,
               <<Brand("Chromium", "120.0.6099.71"), Brand("Microsoft Edge", "119.0.2151.97")>>}}

Env(ssr, userAgentData, navigator, options) ==
    [ssr |-> ssr, userAgentData |-> userAgentData, navigator |-> navigator,
     options |-> options]

\* the navigator of a browser that also exposes userAgentData
ChromeNavigator == Navigator("Windows NT 10.0 Chrome/120.0.0.0 Safari/537.36", <<0>>, FALSE)

\* the environments the hook is mounted in: without a window, with
\* navigator.userAgentData, and with the User-Agent string only
Envs ==
    {Env(TRUE, u, ChromeNavigator, o) :
        u \in {Undefined, UserAgentData(<<>>, TRUE, "Android", FALSE)}, o \in HookOptions} \cup
    {Env(FALSE, u, ChromeNavigator, o) : u \in HookUserAgentData, o \in HookOptions} \cup
    {Env(FALSE, Undefined, n, o) : n \in HookNavigators, o \in {Undefined}}

NoArg == [kind |-> "none"]
NoRet == [fn |-> "none"]

hookVars == <<env, pc, agent, captured, low, request, timer, race, jobs, result, trace>>

\* no hook is mounted: the extractors are called directly
NoHook ==
    /\ env = Env(TRUE, Undefined, ChromeNavigator, Undefined)
    /\ pc = "unmounted"
    /\ agent = InitialAgent
    /\ captured = InitialAgent
    /\ low = InitialAgent
    /\ request = NoPromise
    /\ timer = "none"
    /\ race = NoPromise
    /\ result = NoPromise
    /\ jobs = <<>>
    /\ trace = NoTrace

\* what a call returned: the function, its input and its value
Ret(fn, input, value) == [fn |-> fn, input |-> input, value |-> value]

----------------------------------------------------------------------------
(* The hook: mounted once in some environment *)

Init ==
    /\ env \in Envs
    /\ pc = "mounted"
    /\ agent = InitialAgent
    /\ captured = InitialAgent
    /\ low = InitialAgent
    /\ request = NoPromise
    /\ timer = "none"
    /\ race = NoPromise
    /\ result = NoPromise
    /\ jobs = <<>>
    /\ trace = NoTrace
    /\ arg = NoArg
    /\ ret = NoRet

Next ==
    \/ RunEffect
    \/ \E v \in Responses : RequestResolve(v)
    \/ RequestReject
    \/ TimerFire
    \/ ResumeGetHighEntropyData
    \/ ResumeDetectAgent

Spec == Init /\ [][Next]_vars

----------------------------------------------------------------------------
(* Properties of the hook and of the high-entropy path *)

Settled(p) == p.state \in {"fulfilled", "rejected"}

\* C1: graceful degradation.  The promise detectFromClientHints returns
\* never rejects, and when the race was lost to a rejection of the request
\* or to the timer, it resolves to a result equal, per areAgentsEqual, to
\* the low-entropy result of the same userAgentData.
C1_GracefulDegradation ==
    /\ result.state # "rejected"
    /\ (Settled(result) /\ race.state = "rejected") =>
           /\ result.state = "fulfilled"
           /\ areAgentsEqual(result.value, extractLowEntropyData(env.userAgentData))

\* the timer fired while the request was pending, and the call returned a
\* low-entropy result that has a browser and a device
C1_Witness ==
    /\ result.state = "fulfilled"
    /\ race.state = "rejected" /\ race.reason = "Timeout"
    /\ request.state = "pending"
    /\ IsDefined(result.value.browser) /\ IsDefined(result.value.device)

\* a request settlement or the firing of the timer
RaceInputEvent == request' # request \/ timer' # timer

\* C2: no late write.  Once the race is decided, the settlement of its
\* other input changes nothing but that input; a result once returned and
\* an agent once published never change, and setAgent is not called again.
C2_NoLateWrite ==
    [][ /\ (Settled(race) /\ RaceInputEvent) =>
               UNCHANGED <<race, jobs, result, agent, pc, trace>>
        /\ Settled(result) => result' = result
        /\ pc = "done" => agent' = agent /\ trace'.setAgent = trace.setAgent
      ]_vars

\* the timer won, the low-entropy result was published, and the abandoned
\* request resolved afterwards with values the merge would have used
C2_Witness ==
    /\ pc = "done"
    /\ race.state = "rejected" /\ race.reason = "Timeout"
    /\ request.state = "fulfilled" /\ request.value # Null
    /\ request.value.architecture # NoStr
    /\ IsDefined(agent.device) /\ agent.device.architecture = NoStr
    /\ trace.setAgent = 1

StringExtractors == {"detectBrowser", "detectDevice", "detectRenderingEngine"}

\* C3: a detection run ends in one of three outcomes, by precedence: no
\* window, then navigator.userAgentData, then the User-Agent string; and
\* only the extractors of that outcome were invoked.
C3_ThreeOutcomes ==
    pc = "done" =>
        IF env.ssr
        THEN agent = MinimalAgent("ssr") /\ trace.invoked = {}
        ELSE IF IsDefined(env.userAgentData)
        THEN /\ agent.detectionMethod = "client-hints"
             /\ trace.invoked = {"detectFromClientHints"}
        ELSE /\ agent.detectionMethod = "user-agent-string"
             /\ trace.invoked = StringExtractors

\* the hints yield no browser although the User-Agent string names one
C3_Witness ==
    /\ pc = "done"
    /\ ~env.ssr /\ IsDefined(env.userAgentData)
    /\ ~IsDefined(agent.browser)
    /\ IsDefined(detectBrowser(env.navigator))
    /\ trace.invoked = {"detectFromClientHints"}

\* C15: single attempt.  getHighEntropyValues is never invoked outside the
\* client-hints path nor when highEntropy is not requested, and the result
\* is then returned without a promise; when highEntropy is requested it is
\* invoked exactly once, with the hints of the caller or, when the caller
\* gave none, with architecture, model, platformVersion and uaFullVersion;
\* no rejection and no timeout makes it invoked again.
C15_SingleAttempt ==
    pc # "mounted" =>
        IF ~env.ssr /\ IsDefined(env.userAgentData)
               /\ IsDefined(env.options) /\ env.options.highEntropy
        THEN trace.hints =
                 << IF env.options.hints = NoHints
                    THEN <<"architecture", "model", "platformVersion", "uaFullVersion">>
                    ELSE env.options.hints >>
        ELSE /\ trace.hints = <<>>
             /\ pc = "done"
             /\ request = NoPromise /\ result = NoPromise

\* the timer fired on a request made with an empty list of hints, the
\* low-entropy result was published and the request was not repeated
C15_Witness ==
    /\ pc = "done"
    /\ race.state = "rejected" /\ race.reason = "Timeout"
    /\ request.state = "pending"
    /\ trace.hints = << <<>> >>

\* C17: no unnecessary updates.  A step of the hook calls setAgent or changes
\* the held agent only with a result that areAgentsEqual tells apart from
\* the agent held before the step; a result equal to the held agent leaves
\* the held agent and the number of setAgent calls as they were.
C17_NoUnnecessaryUpdates ==
    [][ (agent' # agent \/ trace'.setAgent # trace.setAgent)
            => /\ trace'.setAgent = trace.setAgent + 1
               /\ ~areAgentsEqual(agent, agent') ]_vars

\* the result of the high-entropy path was published by the one call of
\* setAgent, and it differs from the initial agent
C17_Witness ==
    /\ pc = "done"
    /\ result.state = "fulfilled"
    /\ trace.setAgent = 1
    /\ agent = result.value
    /\ ~areAgentsEqual(InitialAgent, agent)

\* getHighEntropyValues won the race with a response, and the merged result
\* was returned
MergeDone ==
    /\ race.state = "fulfilled"
    /\ race.value # Null
    /\ result.state = "fulfilled"

\* the device of the merged result: the low-entropy device with the three
\* fields of the response, an absent device staying absent
MergedDevice ==
    IF IsDefined(low.device)
    THEN result.value.device =
             [low.device EXCEPT !.architecture = race.value.architecture,
                                !.model = race.value.model,
                                !.platformVersion = race.value.platformVersion]
    ELSE result.value.device = Undefined

\* the browser of the merged result when the response's list does not count
MergedBrowser ==
    IF IsDefined(low.browser) /\ race.value.uaFullVersion \notin {NoStr, ""}
    THEN result.value.browser =
             [low.browser EXCEPT !.fullVersion = race.value.uaFullVersion]
    ELSE result.value.browser = low.browser

\* C19 as stated: on a successful response the device receives architecture,
\* model and platformVersion only if the low-entropy device was present, the
\* browser receives fullVersion only if the low-entropy browser was present
\* and the response carries a full version, and otherwise browser and device
\* are those of the low-entropy result.
C19_Merge ==
    MergeDone => MergedDevice /\ MergedBrowser

\* the browser the response's fullVersionList yields, if any
ListBrowser ==
    IF race.value.fullVersionList = NoBrands THEN Undefined
    ELSE extractBrowserFromBrands(race.value.fullVersionList)

\* C19, amended: as stated, except when the response carries a
\* fullVersionList from which extractBrowserFromBrands yields a browser; the
\* browser of the result is then that browser, with the uaFullVersion of the
\* response, as it is, for fullVersion.
C19_MergeWithList ==
    MergeDone =>
        /\ MergedDevice
        /\ IF IsDefined(ListBrowser)
           THEN result.value.browser =
                    BrowserInfo(ListBrowser.name, ListBrowser.version,
                                race.value.uaFullVersion)
           ELSE MergedBrowser

\* C23: preference for the richer brand list.  When the successful response
\* carries a non-empty fullVersionList in which brand matching finds a
\* browser, the browser of the result has the name and the version found
\* in the list and the uaFullVersion of the response for fullVersion; when
\* the list is absent, empty or without a browser, the browser of the
\* result is the low-entropy browser, with the uaFullVersion attached when
\* both are there.
C23_RicherBrandList ==
    MergeDone =>
        LET list == race.value.fullVersionList
            found == IF list = NoBrands THEN Undefined ELSE extractBrowserFromBrands(list)
            browser == result.value.browser
        IN  IF list # NoBrands /\ list # <<>> /\ IsDefined(found)
            THEN /\ IsDefined(browser)
                 /\ browser.name = found.name
                 /\ browser.version = found.version
                 /\ browser.fullVersion = race.value.uaFullVersion
            ELSE IF ~IsDefined(low.browser) THEN ~IsDefined(browser)
            ELSE /\ IsDefined(browser)
                 /\ browser.name = low.browser.name
                 /\ browser.version = low.browser.version
                 /\ browser.fullVersion =
                        (IF race.value.uaFullVersion \in {NoStr, ""}
                         THEN low.browser.fullVersion
                         ELSE race.value.uaFullVersion)

\* the low-entropy browser is Chrome 121; the list of the response names
\* Edge, which replaces it and carries the uaFullVersion
C23_Witness ==
    /\ MergeDone
    /\ IsDefined(low.browser) /\ low.browser.name = "Chrome"
    /\ race.value.uaFullVersion = "120.0.6099.71"
    /\ result.value.browser = BrowserInfo("Edge", "119.0.2151.97", "120.0.6099.71")

\* the low-entropy result has a device and no browser; the response carries
\* a model and a list that names Edge, and no uaFullVersion
C19_Witness ==
    /\ MergeDone
    /\ IsDefined(low.device) /\ ~IsDefined(low.browser)
    /\ race.value.model = "Pixel 7"
    /\ race.value.uaFullVersion = NoStr
    /\ result.value.device.model = "Pixel 7"
    /\ result.value.browser = BrowserInfo("Edge", "119.0.2151.97", NoStr)

\* a browser, where there is one, has a version that is not empty
HasVersion(a) ==
    IsDefined(a.browser) => a.browser.version \notin {"", NoStr}

\* C20: browser version is never empty.  The browser of the low-entropy
\* result, of the result of the high-entropy path and of the agent the hook
\* holds, whichever path detected it, has a non-empty version; the string
\* extractor gives a run of digits and dots or the literal Unknown.
C20_VersionNeverEmpty ==
    /\ pc # "mounted" /\ DetectionPath(env) = "client-hints" => HasVersion(low)
    /\ result.state = "fulfilled" => HasVersion(result.value)
    /\ HasVersion(agent)
    /\ pc = "done" /\ DetectionPath(env) = "user-agent-string" /\ IsDefined(agent.browser)
           => \/ agent.browser.version = "Unknown"
              \/ /\ Len(agent.browser.version) > 0
                 /\ \A i \in 1..Len(agent.browser.version) :
                        IsVersionChar(Char(agent.browser.version, i))

\* deviceType is there exactly with the device, and is its classification
TypeMatchesDevice(a) ==
    IF IsDefined(a.device)
    THEN a.deviceType = getDeviceTypeClassification(a.device.isMobile, a.device.device)
    ELSE a.deviceType = NoStr

\* C27: deviceType is consistent with device.  In the low-entropy result, in
\* the result of the high-entropy path and in the agent the hook holds,
\* whichever path produced it, deviceType is present exactly when device is
\* and then is getDeviceTypeClassification(device.isMobile, device.device).
C27_DeviceTypeConsistent ==
    /\ TypeMatchesDevice(low)
    /\ result.state = "fulfilled" => TypeMatchesDevice(result.value)
    /\ TypeMatchesDevice(agent)

\* the hook holds a merged result: an Android tablet with the model of the
\* response
C27_Witness ==
    /\ MergeDone
    /\ pc = "done"
    /\ agent = result.value
    /\ agent.device.model = "Pixel 7"
    /\ agent.device.device = "Tablet"
    /\ agent.deviceType = "tablet"

\* the engine of a result belongs to its browser, and a result of the client
\* hints or of the server has none
EngineMatchesBrowser(a) ==
    /\ IsDefined(a.renderingEngine) =>
           /\ IsDefined(a.browser)
           /\ a.browser.name \in
                  (CASE a.renderingEngine.name = "Blink" -> CHROMIUM_BROWSERS
                     [] a.renderingEngine.name = "Gecko" -> GECKO_BROWSERS
                     [] a.renderingEngine.name = "WebKit" -> WEBKIT_BROWSERS)
    /\ a.detectionMethod \in {"client-hints", "ssr"} => ~IsDefined(a.renderingEngine)

HighEntropyRun ==
    /\ ~env.ssr
    /\ IsDefined(env.userAgentData)
    /\ IsDefined(env.options) /\ env.options.highEntropy

\* C30: one publication per run.  In a run with highEntropy requested the
\* hook holds its initial empty agent, and has not called setAgent, as long
\* as the race is undecided and until the final result is there; it then
\* holds the final result after exactly one call of setAgent.  The
\* low-entropy result is held only as the final result, and no run ends
\* with the publication suppressed by the gate.
C30_OnePublication ==
    /\ HighEntropyRun =>
           /\ (pc # "done" \/ race.state \in {"none", "pending"}) =>
                  /\ agent = Agent(Undefined, Undefined, Undefined, NoStr, NoStr)
                  /\ trace.setAgent = 0
           /\ pc = "done" =>
                  /\ result.state = "fulfilled"
                  /\ agent = result.value
                  /\ trace.setAgent = 1
    /\ pc = "done" => trace.setAgent = 1

\* the unreadable brands give the minimal agent, the request is rejected and
\* the minimal agent is published all the same, by one call of setAgent
C30_Witness ==
    /\ HighEntropyRun
    /\ pc = "done"
    /\ env.userAgentData.brandsThrows
    /\ race.state = "rejected" /\ race.reason = "NotAllowedError"
    /\ agent = MinimalAgent("client-hints")
    /\ trace.setAgent = 1

----------------------------------------------------------------------------
(* The hook under fair scheduling: the event loop runs every queued
   continuation and the timer fires; nothing makes getHighEntropyValues
   settle *)

LiveEnvs ==
    {Env(FALSE, u, ChromeNavigator, o) :
        u \in {UserAgentData(<<Brand("Chromium", "120"), Brand("Microsoft Edge", "119")>>,
                             FALSE, "Android", FALSE),
               UserAgentData(<<>>, FALSE, "Windows", TRUE)},
        o \in HookOptions} \cup
    {Env(TRUE, Undefined, ChromeNavigator, Undefined),
     Env(FALSE, Undefined, ChromeNavigator, Undefined)}

InitLive ==
    /\ env \in LiveEnvs
    /\ pc = "mounted"
    /\ agent = InitialAgent
    /\ captured = InitialAgent
    /\ low = InitialAgent
    /\ request = NoPromise
    /\ timer = "none"
    /\ race = NoPromise
    /\ result = NoPromise
    /\ jobs = <<>>
    /\ trace = NoTrace
    /\ arg = NoArg
    /\ ret = NoRet

\* what getHighEntropyValues resolves with, if it does
LiveResponses ==
    {Null} \cup
    {UADataValues(NoStr, m, NoStr, fv, l) :
        m \in {NoStr, "Pixel 7"}, fv \in {NoStr, "120.0.6099.71"},
        l \in {NoBrands,
               <<Brand("Chromium", "120.0.6099.71"), Brand("Microsoft Edge", "119.0.2151.97")>>}}

NextLive ==
    \/ RunEffect
    \/ \E v \in LiveResponses : RequestResolve(v)
    \/ RequestReject
    \/ TimerFire
    \/ ResumeGetHighEntropyData
    \/ ResumeDetectAgent

\* a continuation is queued for fn: the microtask is runnable
Queued(fn) == jobs # <<>> /\ Head(jobs).fn = fn

\* weak fairness of the timer and of the two continuations; that of a
\* continuation is written with the guard of its action for ENABLED
SpecLive ==
    /\ InitLive
    /\ [][NextLive]_vars
    /\ WF_vars(TimerFire)
    /\ ([]<>(~Queued("getHighEntropyData")) \/ []<><<ResumeGetHighEntropyData>>_vars)
    /\ ([]<>(~Queued("detectAgent")) \/ []<><<ResumeDetectAgent>>_vars)

\* C22: termination of the high-entropy path.  Once detectFromClientHints
\* has returned its promise, the promise is eventually fulfilled with a
\* result, whether or not getHighEntropyValues ever settles.
C22_Termination ==
    (result.state = "pending") ~> (result.state = "fulfilled")

\* getHighEntropyValues is still pending, the timer has fired and the
\* promise of detectFromClientHints is fulfilled with the low-entropy result
C22_Witness ==
    /\ request.state = "pending"
    /\ timer = "fired"
    /\ result.state = "fulfilled"
    /\ result.value = low

----------------------------------------------------------------------------
(* The hook, mounted once and rendered again with the same or other options *)

\* the options a render passes
RenderOptions == {Undefined, [highEntropy |-> TRUE, hints |-> NoHints]}

RenderEnvs ==
    {Env(TRUE, Undefined, ChromeNavigator, o) : o \in RenderOptions} \cup
    {Env(FALSE, u, ChromeNavigator, o) :
        u \in {UserAgentData(<<Brand("Chromium", "120"), Brand("Microsoft Edge", "119")>>,
                             FALSE, "Android", FALSE)},
        o \in RenderOptions \cup {[highEntropy |-> FALSE, hints |-> NoHints]}} \cup
    {Env(FALSE, Undefined, ChromeNavigator, o) : o \in RenderOptions}

InitRender ==
    /\ env \in RenderEnvs
    /\ pc = "mounted"
    /\ agent = InitialAgent
    /\ captured = InitialAgent
    /\ low = InitialAgent
    /\ request = NoPromise
    /\ timer = "none"
    /\ race = NoPromise
    /\ result = NoPromise
    /\ jobs = <<>>
    /\ trace = NoTrace
    /\ arg = NoArg
    /\ ret = NoRet

NextRender ==
    \/ RunEffect
    \/ \E v \in Responses : RequestResolve(v)
    \/ RequestReject
    \/ TimerFire
    \/ ResumeGetHighEntropyData
    \/ ResumeDetectAgent
    \/ \E o \in RenderOptions : Rerender(o)

SpecRender == InitRender /\ [][NextRender]_vars

\* C16: single detection per mount.  Whatever renders follow the mount, with
\* the same or with other options, the effect has run exactly once as soon
\* as it has run, getHighEntropyValues is not requested a second time, and
\* no render puts the detection back to its start.
C16_SingleDetection ==
    /\ trace.runs = (IF pc = "mounted" THEN 0 ELSE 1)
    /\ Len(trace.hints) <= 1
    /\ pc = "mounted" => trace.rendered = <<>>

\* the component was rendered again with its own options and with others,
\* the detection is over and ran once
C16_Witness ==
    /\ pc = "done"
    /\ trace.runs = 1
    /\ \E i, j \in DOMAIN trace.rendered :
           /\ trace.rendered[i] = env.options
           /\ trace.rendered[j] # env.options

----------------------------------------------------------------------------
(* The string extractors of the browser, called on User-Agent strings of   *)
(* at most MaxUALen fragments                                              *)

BrowserArgs ==
    {[kind |-> "navigator", words |-> ws, navigator |-> Navigator(Join(ws), <<>>, b)] :
        ws \in SeqsUpTo(BrowserWords, MaxUALen), b \in BOOLEAN}

InitBrowser ==
    /\ arg \in BrowserArgs
    /\ ret = NoRet
    /\ NoHook

CallDetectBrowser ==
    /\ arg.kind = "navigator"
    /\ ret = NoRet
    /\ ret' = Ret("detectBrowser", arg.navigator, detectBrowser(arg.navigator))
    /\ UNCHANGED <<arg, hookVars>>

\* detectRenderingEngine(browser?.name, navigator), as the hook calls it
CallDetectRenderingEngine ==
    /\ ret.fn = "detectBrowser"
    /\ ret' = Ret("detectRenderingEngine", ret.value,
                  detectRenderingEngine(IF IsDefined(ret.value) THEN ret.value.name ELSE NoStr,
                                        arg.navigator))
    /\ UNCHANGED <<arg, hookVars>>

NextBrowser == CallDetectBrowser \/ CallDetectRenderingEngine

SpecBrowser == InitBrowser /\ [][NextBrowser]_vars

\* the User-Agent string under call carries the catalog token
HasToken(token) == \E i \in 1..Len(arg.words) : arg.words[i].token = token

\* the version that follows the first versioned occurrence of the token
VersionAfter(token) ==
    LET versioned == {i \in 1..Len(arg.words) :
                         arg.words[i].token = token /\ arg.words[i].version # NoStr}
    IN  IF versioned = {} THEN "Unknown"
        ELSE arg.words[CHOOSE i \in versioned : \A j \in versioned : i <= j].version

SpecificChromium == {
    [name |-> "Edge", token |-> "Edg/"],
    [name |-> "Samsung Internet", token |-> "SamsungBrowser/"],
    [name |-> "Vivaldi", token |-> "Vivaldi/"],
    [name |-> "Opera15+", token |-> "OPR/"] }

\* C4: disambiguation by exclusion.  Without the Brave signal, a string
\* with the Chrome token and one of the Edg/, SamsungBrowser/, Vivaldi/,
\* OPR/ tokens is detected as one of the specific browsers whose token it
\* carries, with the version that follows that token; a string with the
\* Firefox and the Seamonkey token is never detected as Firefox.
C4_Disambiguation ==
    (ret.fn = "detectBrowser" /\ ~arg.navigator.brave) =>
        /\ (HasToken("Chrome/") /\ \E b \in SpecificChromium : HasToken(b.token)) =>
               /\ IsDefined(ret.value)
               /\ ret.value.name # "Chrome"
               /\ \E b \in SpecificChromium :
                      /\ HasToken(b.token)
                      /\ ret.value.name = b.name
                      /\ ret.value.version = VersionAfter(b.token)
        /\ (HasToken("Firefox/") /\ HasToken("Seamonkey/")) =>
               (IsDefined(ret.value) /\ ret.value.name # "Firefox")

\* Chrome precedes the Edge token, whose version differs from Chrome's
C4_Witness ==
    /\ ret.fn = "detectBrowser"
    /\ arg.navigator.userAgent = "Chrome/120.0.0.0 Safari/604.1 Edg/119.0.0.0"
    /\ ret.value = BrowserInfo("Edge", "119.0.0.0", NoStr)

----------------------------------------------------------------------------
(* The device extractors and the device classifier, called directly: on    *)
(* User-Agent strings of at most MaxUALen fragments with a touch-point     *)
(* count, on userAgentData objects, and on (isMobile, device) pairs        *)

Devices == {"Android", "iPhone", "iPad", "iPod", "Desktop PC", "Tablet", "Unknown"}

\* platform strings of navigator.userAgentData
PlatformStrings ==
    {"Android", "Windows", "macOS", "Linux", "Chrome OS", "ChromeOS", "iOS", "iPadOS",
     "Fuchsia", "", NoStr, "ANDROID", "Chrome OS (Linux)", "iPhone (macOS)"}

DeviceArgs ==
    {[kind |-> "navigator", words |-> ws, navigator |-> Navigator(Join(ws), t, FALSE)] :
        ws \in SeqsUpTo(PlatformWords, MaxUALen), t \in TouchPoints} \cup
    {[kind |-> "userAgentData", userAgentData |-> UserAgentData(<<>>, m, p, FALSE)] :
        m \in BOOLEAN, p \in PlatformStrings} \cup
    {[kind |-> "device", isMobile |-> m, device |-> d] : m \in BOOLEAN, d \in Devices}

InitDevice ==
    /\ arg \in DeviceArgs
    /\ ret = NoRet
    /\ NoHook

CallDetectDeviceFromUA ==
    /\ arg.kind = "navigator"
    /\ ret = NoRet
    /\ ret' = Ret("detectDeviceFromUA", arg.navigator, detectDeviceFromUA(arg.navigator))
    /\ UNCHANGED <<arg, hookVars>>

CallDetectDeviceFromClientHints ==
    /\ arg.kind = "userAgentData"
    /\ ret = NoRet
    /\ ret' = Ret("detectDeviceFromClientHints", arg.userAgentData,
                  detectDeviceFromClientHints(arg.userAgentData))
    /\ UNCHANGED <<arg, hookVars>>

\* the device of the result of mergeHighEntropyData, called on the
\* low-entropy result of the userAgentData and a response
CallMergeHighEntropyData(v) ==
    /\ ret.fn = "detectDeviceFromClientHints"
    /\ ret' = Ret("mergeHighEntropyData", v,
                  mergeHighEntropyData(extractLowEntropyData(arg.userAgentData), v).device)
    /\ UNCHANGED <<arg, hookVars>>

\* getDeviceTypeClassification on a pair, or on a device just detected as
\* the hook and extractLowEntropyData call it
CallGetDeviceTypeClassification ==
    /\ \/ arg.kind = "device" /\ ret = NoRet
       \/ ret.fn \in {"detectDeviceFromUA", "detectDeviceFromClientHints"} /\ IsDefined(ret.value)
    /\ LET d == IF arg.kind = "device" THEN arg ELSE ret.value
       IN  ret' = Ret("getDeviceTypeClassification",
                      [isMobile |-> d.isMobile, device |-> d.device],
                      [deviceType |-> getDeviceTypeClassification(d.isMobile, d.device)])
    /\ UNCHANGED <<arg, hookVars>>

NextDevice ==
    \/ CallDetectDeviceFromUA
    \/ CallDetectDeviceFromClientHints
    \/ \E v \in Responses \ {Null} : CallMergeHighEntropyData(v)
    \/ CallGetDeviceTypeClassification

SpecDevice == InitDevice /\ [][NextDevice]_vars

\* the Mac token is the first platform token of detectDeviceFromUA that the
\* string under call carries
MacIsFirstToken ==
    /\ HasToken("Mac")
    /\ \A t \in {"Android", "iPhone", "iPad", "iPod", "Win"} : ~HasToken(t)

\* C5: touch-point boundary.  When the Mac token is the first matching
\* platform token, the device is Mac OS / Desktop PC / not mobile with
\* maxTouchPoints absent, 0 or 1, and iOS / iPad / not mobile with 2 or more.
C5_TouchPointBoundary ==
    (ret.fn = "detectDeviceFromUA" /\ MacIsFirstToken) =>
        LET touch == arg.navigator.maxTouchPoints
        IN  IF touch = <<>> \/ touch \in {<<0>>, <<1>>}
            THEN ret.value = DeviceInfo(FALSE, "Mac OS", "Desktop PC")
            ELSE ret.value = DeviceInfo(FALSE, "iOS", "iPad")

\* a Mac string with exactly one touch point stays a desktop
C5_Witness ==
    /\ ret.fn = "detectDeviceFromUA"
    /\ MacIsFirstToken /\ HasToken("Linux")
    /\ arg.navigator.maxTouchPoints = <<1>>
    /\ ret.value.device = "Desktop PC"

\* C6: tablet override.  The classification is 'tablet' for Tablet and
\* iPad whatever isMobile is, else 'mobile' when isMobile and 'desktop'
\* when not.
C6_TabletOverride ==
    ret.fn = "getDeviceTypeClassification" =>
        ret.value.deviceType =
            (IF ret.input.device \in {"Tablet", "iPad"} THEN "tablet"
             ELSE IF ret.input.isMobile THEN "mobile" ELSE "desktop")

\* a mobile-flagged iPad is a tablet
C6_Witness ==
    /\ ret.fn = "getDeviceTypeClassification"
    /\ ret.input = [isMobile |-> TRUE, device |-> "iPad"]
    /\ ret.value.deviceType = "tablet"

\* C7: every DeviceInfo an extractor or the merge produces has isMobile
\* false when its device is Tablet or iPad.
C7_TabletNotMobile ==
    (/\ ret.fn \in {"detectDeviceFromUA", "detectDeviceFromClientHints", "mergeHighEntropyData"}
     /\ IsDefined(ret.value)
     /\ ret.value.device \in {"Tablet", "iPad"}) =>
        ret.value.isMobile = FALSE

\* an iPad of the client hints, after the merge of a response
C7_Witness ==
    /\ ret.fn = "mergeHighEntropyData"
    /\ ret.value.device = "iPad"
    /\ ret.value.architecture = "arm"

\* C8: Android phone/tablet split.  A string with the Android token is
\* platform Android, mobile exactly when it has the Mobile token, device
\* Android if mobile else Tablet, and is classified mobile or tablet
\* accordingly, whatever other platform tokens it carries.
C8_AndroidSplit ==
    (arg.kind = "navigator" /\ HasToken("Android")) =>
        /\ ret.fn = "detectDeviceFromUA" =>
               ret.value = DeviceInfo(HasToken("Mobile"), "Android",
                                      IF HasToken("Mobile") THEN "Android" ELSE "Tablet")
        /\ ret.fn = "getDeviceTypeClassification" =>
               ret.value.deviceType = (IF HasToken("Mobile") THEN "mobile" ELSE "tablet")

\* an Android tablet whose string also names Linux and the Mac
C8_Witness ==
    /\ arg.kind = "navigator"
    /\ ret.fn = "getDeviceTypeClassification"
    /\ HasToken("Android") /\ HasToken("Linux") /\ HasToken("Mac")
    /\ ~HasToken("Mobile")
    /\ ret.value.deviceType = "tablet"

----------------------------------------------------------------------------
(* areAgentsEqual, called on three results: each starts as one of the      *)
(* results below and has at most MaxEdits of its declared fields changed   *)

\* a client-hints result with every optional field, the same result without
\* the optional fields, that one without its device, and the result of a
\* server render
AgentBases == {
    Agent([DeviceInfo(FALSE, "Windows", "Desktop PC") EXCEPT
               !.architecture = "arm", !.model = "Pixel 7", !.platformVersion = "13.0.0"],
          BrowserInfo("Chrome", "120", "120.0.6099.71"),
          RenderingEngineInfo("Blink", "120"), "client-hints", "desktop"),
    Agent(DeviceInfo(FALSE, "Windows", "Desktop PC"), BrowserInfo("Chrome", "120", NoStr),
          RenderingEngineInfo("Blink", "120"), "client-hints", "desktop"),
    Agent(Undefined, BrowserInfo("Chrome", "120", NoStr),
          RenderingEngineInfo("Blink", "120"), "client-hints", "desktop"),
    MinimalAgent("ssr") }

FieldEdit(obj, field, value) == [obj |-> obj, field |-> field, value |-> value]

\* the declared fields of a result and of its sub-objects, each with two
\* values it is set to
FieldEdits == <<
    FieldEdit("agent", "detectionMethod", "user-agent-string"),
    FieldEdit("agent", "detectionMethod", NoStr),
    FieldEdit("agent", "deviceType", "mobile"),
    FieldEdit("agent", "deviceType", NoStr),
    FieldEdit("agent", "device", Undefined),
    FieldEdit("agent", "device", DeviceInfo(TRUE, "Android", "Android")),
    FieldEdit("agent", "browser", Undefined),
    FieldEdit("agent", "browser", BrowserInfo("Firefox", "121.0", NoStr)),
    FieldEdit("agent", "renderingEngine", Undefined),
    FieldEdit("agent", "renderingEngine", RenderingEngineInfo("Gecko", "121.0")),
    FieldEdit("device", "isMobile", TRUE),
    FieldEdit("device", "isMobile", FALSE),
    FieldEdit("device", "platform", "Linux"),
    FieldEdit("device", "platform", "iOS"),
    FieldEdit("device", "device", "Tablet"),
    FieldEdit("device", "device", "iPad"),
    FieldEdit("device", "architecture", NoStr),
    FieldEdit("device", "architecture", "x86"),
    FieldEdit("device", "model", NoStr),
    FieldEdit("device", "model", "SM-G991B"),
    FieldEdit("device", "platformVersion", NoStr),
    FieldEdit("device", "platformVersion", "14.0.0"),
    FieldEdit("browser", "name", "Edge"),
    FieldEdit("browser", "name", "Opera"),
    FieldEdit("browser", "version", "119"),
    FieldEdit("browser", "version", "Unknown"),
    FieldEdit("browser", "fullVersion", NoStr),
    FieldEdit("browser", "fullVersion", "119.0.2151.97"),
    FieldEdit("renderingEngine", "name", "WebKit"),
    FieldEdit("renderingEngine", "name", "Unknown"),
    FieldEdit("renderingEngine", "version", "605.1.15"),
    FieldEdit("renderingEngine", "version", "Unknown") >>

\* the result with the field set; a field of an absent sub-object cannot be set
CanEdit(x, e) == IF e.obj = "agent" THEN TRUE ELSE IsDefined(x[e.obj])

ApplyEdit(x, e) ==
    IF e.obj = "agent" THEN [x EXCEPT ![e.field] = e.value]
    ELSE [x EXCEPT ![e.obj] = [x[e.obj] EXCEPT ![e.field] = e.value]]

InitEq ==
    /\ arg \in {[kind |-> "agents", a |-> a, b |-> b, c |-> c, edits |-> 0] :
                   a \in AgentBases, b \in AgentBases, c \in AgentBases}
    /\ ret = NoRet
    /\ NoHook

EditAgent(which, e) ==
    /\ ret = NoRet
    /\ arg.edits < MaxEdits
    /\ CanEdit(arg[which], e)
    /\ ApplyEdit(arg[which], e) # arg[which]
    /\ arg' = [arg EXCEPT ![which] = ApplyEdit(arg[which], e), !.edits = arg.edits + 1]
    /\ UNCHANGED <<ret, hookVars>>

\* areAgentsEqual on each pair of the three results, in both orders where
\* the order is in question
CompareAgents ==
    /\ ret = NoRet
    /\ ret' = Ret("areAgentsEqual", <<arg.a, arg.b, arg.c>>,
                  [aa |-> areAgentsEqual(arg.a, arg.a),
                   ab |-> areAgentsEqual(arg.a, arg.b),
                   ba |-> areAgentsEqual(arg.b, arg.a),
                   bc |-> areAgentsEqual(arg.b, arg.c),
                   ac |-> areAgentsEqual(arg.a, arg.c)])
    /\ UNCHANGED <<arg, hookVars>>

NextEq ==
    \/ \E which \in {"a", "b", "c"}, i \in DOMAIN FieldEdits : EditAgent(which, FieldEdits[i])
    \/ CompareAgents

SpecEq == InitEq /\ [][NextEq]_vars

\* both absent, or both present with each of the fields equal
SameSubObject(x, y, fields) ==
    \/ ~IsDefined(x) /\ ~IsDefined(y)
    \/ IsDefined(x) /\ IsDefined(y) /\ \A f \in fields : x[f] = y[f]

StructurallyEqual(x, y) ==
    /\ x.detectionMethod = y.detectionMethod
    /\ x.deviceType = y.deviceType
    /\ SameSubObject(x.device, y.device,
                     {"isMobile", "platform", "device", "architecture", "model", "platformVersion"})
    /\ SameSubObject(x.browser, y.browser, {"name", "version", "fullVersion"})
    /\ SameSubObject(x.renderingEngine, y.renderingEngine, {"name", "version"})

\* the declared fields in which two results differ, sub-objects counted whole
\* when one of them is absent
Differences(x, y) ==
    {<<"agent", f>> : f \in {g \in {"detectionMethod", "deviceType"} : x[g] # y[g]}} \cup
    UNION {IF IsDefined(x[o]) /\ IsDefined(y[o])
           THEN {<<o, f>> : f \in {g \in DOMAIN x[o] : x[o][g] # y[o][g]}}
           ELSE IF IsDefined(x[o]) \/ IsDefined(y[o]) THEN {<<"agent", o>>} ELSE {} :
           o \in {"device", "browser", "renderingEngine"}}

\* C9: structural equality.  areAgentsEqual(a, b) is true exactly when
\* detectionMethod and deviceType match and device, browser and
\* renderingEngine are each both absent or both present with every declared
\* field equal.
C9_StructuralEquality ==
    ret.fn = "areAgentsEqual" =>
        /\ ret.value.ab <=> StructurallyEqual(arg.a, arg.b)
        /\ ret.value.bc <=> StructurallyEqual(arg.b, arg.c)
        /\ ret.value.ac <=> StructurallyEqual(arg.a, arg.c)

\* two results that differ in the optional fullVersion of the browser alone
\* are unequal
C9_Witness ==
    /\ ret.fn = "areAgentsEqual"
    /\ Differences(arg.a, arg.b) = {<<"browser", "fullVersion">>}
    /\ ret.value.ab = FALSE

\* C10: areAgentsEqual is reflexive, symmetric and transitive on the three
\* results, results with absent sub-objects and absent optional fields
\* included.
C10_Equivalence ==
    ret.fn = "areAgentsEqual" =>
        /\ ret.value.aa
        /\ ret.value.ab = ret.value.ba
        /\ (ret.value.ab /\ ret.value.bc) => ret.value.ac

\* three equal results without device, one of them made so by a change
C10_Witness ==
    /\ ret.fn = "areAgentsEqual"
    /\ arg.edits > 0
    /\ ~IsDefined(arg.a.device)
    /\ IsDefined(arg.a.browser) /\ arg.a.browser.fullVersion = NoStr
    /\ ret.value.ab /\ ret.value.bc /\ ret.value.ac /\ ret.value.ba

----------------------------------------------------------------------------
(* One browser on one device, presented to both detection paths: as the    *)
(* userAgentData and as the User-Agent string that browser sends           *)

\* the brands a Chromium browser reports and the tokens of its User-Agent string
FixtureBrowsers == {
    [brands |-> <<Brand("Not A;Brand", "99"), Brand("Chromium", "120"),
                  Brand("Google Chrome", "120")>>, tokens |-> "", brave |-> FALSE],
    [brands |-> <<Brand("Not A;Brand", "99"), Brand("Chromium", "120"),
                  Brand("Microsoft Edge", "120")>>, tokens |-> " Edg/120.0.0.0", brave |-> FALSE],
    [brands |-> <<Brand("Not A;Brand", "99"), Brand("Chromium", "120"),
                  Brand("Opera", "106")>>, tokens |-> " OPR/106.0.0.0", brave |-> FALSE],
    [brands |-> <<Brand("Not A;Brand", "99"), Brand("Chromium", "120"),
                  Brand("Samsung Internet", "23")>>, tokens |-> " SamsungBrowser/23.0",
     brave |-> FALSE],
    [brands |-> <<Brand("Not A;Brand", "99"), Brand("Chromium", "120"),
                  Brand("Vivaldi", "6.5")>>, tokens |-> " Vivaldi/6.5.3206.63", brave |-> FALSE],
    [brands |-> <<Brand("Not A;Brand", "99"), Brand("Chromium", "120"),
                  Brand("Brave", "120")>>, tokens |-> "", brave |-> TRUE] }

\* the platform and mobile hints of a device and the platform part of its
\* User-Agent string
FixtureDevices == {
    [platform |-> "Windows", mobile |-> FALSE, system |-> "Windows NT 10.0; Win64; x64"],
    [platform |-> "macOS", mobile |-> FALSE, system |-> "Macintosh; Intel Mac OS X 10_15_7"],
    [platform |-> "Linux", mobile |-> FALSE, system |-> "X11; Linux x86_64"],
    [platform |-> "Chrome OS", mobile |-> FALSE, system |-> "X11; CrOS x86_64 14541.0.0"],
    [platform |-> "Android", mobile |-> TRUE, system |-> "Linux; Android 13; Pixel 7"],
    [platform |-> "Android", mobile |-> FALSE, system |-> "Linux; Android 13; SM-X900"] }

FixtureUserAgent(b, d) ==
    "Mozilla/5.0 (" \o d.system \o ") AppleWebKit/537.36 (KHTML, like Gecko) Chrome/120.0.0.0"
        \o (IF d.mobile THEN " Mobile" ELSE "") \o " Safari/537.36" \o b.tokens

Fixtures ==
    {[kind |-> "fixture",
      userAgentData |-> UserAgentData(b.brands, d.mobile, d.platform, FALSE),
      navigator |-> Navigator(FixtureUserAgent(b, d), <<0>>, b.brave)] :
        b \in FixtureBrowsers, d \in FixtureDevices}

InitPaths ==
    /\ arg \in Fixtures
    /\ ret = NoRet
    /\ NoHook

\* detectFromClientHints(userAgentData), without options
CallDetectFromClientHints ==
    /\ arg.kind \in {"fixture", "userAgentData"}
    /\ ret = NoRet
    /\ ret' = Ret("detectFromClientHints", arg.userAgentData,
                  detectFromClientHints(arg.userAgentData, Undefined).agent)
    /\ UNCHANGED <<arg, hookVars>>

\* the fallback branch of the hook on the navigator of the same fixture; the
\* result of the client hints is kept as input for the comparison
CallStringExtractors ==
    /\ ret.fn = "detectFromClientHints"
    /\ ret' = Ret("stringExtractors", ret.value, UserAgentStringAgent(arg.navigator))
    /\ UNCHANGED <<arg, hookVars>>

NextPaths == CallDetectFromClientHints \/ CallStringExtractors

SpecPaths == InitPaths /\ [][NextPaths]_vars

\* both sub-objects are present and agree on the fields
MatchOn(x, y, fields) ==
    IsDefined(x) /\ IsDefined(y) /\ \A f \in fields : x[f] = y[f]

\* C11: round trip across the two paths.  For one fixture, the result of the
\* client hints and the result of the User-Agent string have the same
\* browser.name, device.platform, device.device, device.isMobile and
\* renderingEngine.name.
C11_RoundTrip ==
    ret.fn = "stringExtractors" =>
        /\ MatchOn(ret.input.browser, ret.value.browser, {"name"})
        /\ MatchOn(ret.input.device, ret.value.device, {"platform", "device", "isMobile"})
        /\ MatchOn(ret.input.renderingEngine, ret.value.renderingEngine, {"name"})

----------------------------------------------------------------------------
(* The extractors called on malformed input: a userAgent that is undefined,  *)
(* null, empty or blank, a userAgentData that is undefined, whose brands     *)
(* getter throws, whose platform or brands are missing, whose brand entries  *)
(* carry no brand name                                                       *)

TotalWords == {
    Word("Chrome/120.0.0.0", "Chrome/", "120.0.0.0"),
    Word("Firefox/", "Firefox/", NoStr),
    Word("Macintosh", "Mac", NoStr),
    Word("iPad", "iPad", NoStr),
    Word("Android 13", "Android", NoStr),
    Word("Mobile", "Mobile", NoStr) }

MalformedUserAgents == {NoStr, NoMatch, "", "   "}

MalformedBrandLists == {
    NoBrands,
    <<>>,
    <<Brand(NoStr, "1")>>,
    <<Brand("Not A Browser", "1"), Brand("Unknown Client", "2")>>,
    <<Brand("Google Chrome", "120"), Brand(NoMatch, "1")>>,
    <<Brand(NoStr, "1"), Brand("Foo Browser", "7")>>,
    <<Brand("Foo Browser", "7"), Brand(NoStr, "1")>> }

TotalArgs ==
    {[kind |-> "navigator", words |-> <<>>, navigator |-> Navigator(u, t, b)] :
        u \in MalformedUserAgents, t \in TouchPoints, b \in BOOLEAN} \cup
    {[kind |-> "navigator", words |-> ws, navigator |-> Navigator(Join(ws), t, FALSE)] :
        ws \in SeqsUpTo(TotalWords, MaxUALen) \ {<<>>}, t \in TouchPoints} \cup
    {[kind |-> "userAgentData", userAgentData |-> Undefined]} \cup
    {[kind |-> "userAgentData", userAgentData |-> UserAgentData(b, m, p, t)] :
        b \in MalformedBrandLists, m \in BOOLEAN,
        p \in {NoStr, NoMatch, "", "Unknown Platform", "Android"}, t \in BOOLEAN}

InitTotal ==
    /\ arg \in TotalArgs
    /\ ret = NoRet
    /\ NoHook

\* userAgentString.ts: detectDevice wraps detectDeviceFromUA in a try block
CallDetectDevice ==
    /\ arg.kind = "navigator"
    /\ ret = NoRet
    /\ ret' = Ret("detectDevice", arg.navigator, detectDevice(arg.navigator))
    /\ UNCHANGED <<arg, hookVars>>

CallIsIPad ==
    /\ arg.kind = "navigator"
    /\ ret = NoRet
    /\ ret' = Ret("isIPad", arg.navigator, isIPad(arg.navigator))
    /\ UNCHANGED <<arg, hookVars>>

CallIsAndroidTablet ==
    /\ arg.kind = "navigator"
    /\ ret = NoRet
    /\ ret' = Ret("isAndroidTablet", arg.navigator.userAgent,
                  isAndroidTablet(arg.navigator.userAgent))
    /\ UNCHANGED <<arg, hookVars>>

NextTotal ==
    \/ CallDetectBrowser
    \/ CallDetectRenderingEngine
    \/ CallDetectDevice
    \/ CallDetectDeviceFromUA
    \/ CallDetectDeviceFromClientHints
    \/ CallDetectFromClientHints
    \/ CallIsIPad
    \/ CallIsAndroidTablet

SpecTotal == InitTotal /\ [][NextTotal]_vars

\* the input of the call is no usable User-Agent string
NoUsableUserAgent == arg.kind = "navigator" /\ ~IsNonEmptyString(arg.navigator.userAgent)

\* the browser of a result is absent, or the Unknown browser
AbsentOrUnknown(browser) == ~IsDefined(browser) \/ browser.name = "Unknown"

\* C12: total functions.  No extractor throws, whatever its input: a
\* userAgent that is no usable string yields an absent browser, device and
\* engine and the answer false; a userAgentData that cannot be read yields the
\* minimal agent, an unreadable platform the Unknown device, unreadable
\* brands an absent or Unknown browser.
C12_TotalFunctions ==
    ret.fn # "none" =>
        /\ ret.value # Thrown
        /\ (NoUsableUserAgent /\ ret.fn \in {"detectBrowser", "detectDevice",
                                             "detectDeviceFromUA", "detectRenderingEngine"}) =>
               ret.value = Undefined
        /\ (NoUsableUserAgent /\ ret.fn \in {"isIPad", "isAndroidTablet"}) =>
               ret.value = [result |-> FALSE]
        /\ (ret.fn = "detectDeviceFromClientHints"
                /\ (~IsDefined(ret.input) \/ ret.input.platform \in NonStrings)) =>
               ret.value = DeviceInfo(FALSE, "Unknown", "Unknown")
        /\ (ret.fn = "detectFromClientHints"
                /\ (~IsDefined(ret.input) \/ ret.input.brandsThrows)) =>
               ret.value = MinimalAgent("client-hints")
        /\ (ret.fn = "detectFromClientHints" /\ IsDefined(ret.input)
                /\ ~ret.input.brandsThrows /\ ret.input.brands \in MalformedBrandLists
                /\ ret.input.brands # <<Brand("Google Chrome", "120"), Brand(NoMatch, "1")>>) =>
               AbsentOrUnknown(ret.value.browser)

\* a brand without a name makes the fallback of the brands scan throw; the
\* catch blocks turn it into an absent browser next to the Unknown device
C12_Witness ==
    /\ ret.fn = "detectFromClientHints"
    /\ IsDefined(ret.input) /\ ~ret.input.brandsThrows
    /\ ret.input.brands = <<Brand(NoStr, "1"), Brand("Foo Browser", "7")>>
    /\ ret.input.platform = NoStr
    /\ ret.value = Agent(DeviceInfo(FALSE, "Unknown", "Unknown"), Undefined, Undefined,
                         "client-hints", "desktop")

----------------------------------------------------------------------------
(* The engine families and the catalog; checked with the browser extractors *)

\* the browser names of BROWSER_PATTERNS
CatalogNames == {BROWSER_PATTERNS[i].name : i \in DOMAIN BROWSER_PATTERNS}

\* the families that list the browser name
FamiliesOf(name) ==
    {f \in {"Blink", "Gecko", "WebKit"} :
        \/ f = "Blink" /\ name \in CHROMIUM_BROWSERS
        \/ f = "Gecko" /\ name \in GECKO_BROWSERS
        \/ f = "WebKit" /\ name \in WEBKIT_BROWSERS}

PairwiseDisjoint ==
    /\ CHROMIUM_BROWSERS \cap GECKO_BROWSERS = {}
    /\ CHROMIUM_BROWSERS \cap WEBKIT_BROWSERS = {}
    /\ GECKO_BROWSERS \cap WEBKIT_BROWSERS = {}

\* C13 as stated: the three families are pairwise disjoint and exhaustive
\* over the catalog, every catalog name lying in exactly one family; stated
\* of the catalog names as detectBrowser returns them, each of which it
\* returns for some string.
C13_ExhaustivePartition ==
    (ret.fn = "detectBrowser" /\ IsDefined(ret.value) /\ ret.value.name \in CatalogNames) =>
        /\ PairwiseDisjoint
        /\ Cardinality(FamiliesOf(ret.value.name)) = 1

\* C13 amended: the three families are pairwise disjoint, and every catalog
\* name lies in exactly one of them except Opera12-, which lies in none; so
\* does every browser name detectBrowser returns.
C13_EnginePartition ==
    /\ PairwiseDisjoint
    /\ \A n \in CatalogNames :
           Cardinality(FamiliesOf(n)) = (IF n = "Opera12-" THEN 0 ELSE 1)
    /\ (ret.fn = "detectBrowser" /\ IsDefined(ret.value)) =>
           Cardinality(FamiliesOf(ret.value.name)) =
               (IF ret.value.name = "Opera12-" THEN 0 ELSE 1)

\* the catalog's Presto entry is detected and has no family
C13_Witness ==
    /\ ret.fn = "detectBrowser"
    /\ IsDefined(ret.value)
    /\ ret.value.name = "Opera12-"
    /\ FamiliesOf(ret.value.name) = {}

----------------------------------------------------------------------------
(* detectRenderingEngine called with every browser name, with and without  *)
(* a navigator                                                             *)

\* the type BrowserName
BrowserNames ==
    {"Chrome", "Chromium", "Edge", "Firefox", "Safari", "Opera", "Brave", "Samsung Internet",
     "Vivaldi", "Arc", "Seamonkey", "Opera15+", "Opera12-", "Unknown"}

\* fragments with and without the version tokens of the engines
EngineWords == {
    Word("Chrome/120.0.0.0", "Chrome/", "120.0.0.0"),
    Word("Chrome/", "Chrome/", NoStr),
    Word("Chromium/118.0", "Chromium/", "118.0"),
    Word("rv:109.0", "rv:", "109.0"),
    Word("Gecko/20100101", "Gecko/", "20100101"),
    Word("AppleWebKit/605.1.15", "AppleWebKit/", "605.1.15") }

EngineArgs ==
    {[kind |-> "engine", browser |-> b, words |-> <<>>, navigator |-> Undefined] :
        b \in BrowserNames \cup {NoStr}} \cup
    {[kind |-> "engine", browser |-> b, words |-> ws,
      navigator |-> Navigator(Join(ws), <<>>, FALSE)] :
        b \in BrowserNames \cup {NoStr}, ws \in SeqsUpTo(EngineWords, MaxUALen)}

InitEngine ==
    /\ arg \in EngineArgs
    /\ ret = NoRet
    /\ NoHook

\* detectRenderingEngine(browser) and detectRenderingEngine(browser, navigator)
CallDetectRenderingEngineOf ==
    /\ arg.kind = "engine"
    /\ ret = NoRet
    /\ ret' = Ret("detectRenderingEngine", arg.browser,
                  detectRenderingEngine(arg.browser, arg.navigator))
    /\ UNCHANGED <<arg, hookVars>>

NextEngine == CallDetectRenderingEngineOf

SpecEngine == InitEngine /\ [][NextEngine]_vars

\* the version the engine's token carries in the string under call
EngineVersionToken(engineName) ==
    CASE engineName = "Blink" ->
             IF VersionAfter("Chrome/") # "Unknown" THEN VersionAfter("Chrome/")
             ELSE VersionAfter("Chromium/")
      [] engineName = "Gecko" -> VersionAfter("rv:")
      [] engineName = "WebKit" -> VersionAfter("AppleWebKit/")

----------------------------------------------------------------------------
(* extractBrowserFromBrands, called on brands arrays in every order *)

\* the brands a Chromium browser reports, each with a version of its own
BrandPool == {
    Brand("Microsoft Edge", "119"),
    Brand("Brave", "1.61"),
    Brand("Samsung Internet", "23"),
    Brand("Vivaldi", "6.5"),
    Brand("Arc", "1.20"),
    Brand("Opera", "105"),
    Brand("Google Chrome", "120"),
    Brand("Chromium", "121"),
    Brand("Not A;Brand", "99"),
    Brand("Not)A;Brand", "8"),
    Brand("Foo Browser", "7"),
    Brand("Bar Browser", "3") }

RECURSIVE Arrangements(_, _)
\* the arrays of at most n different elements of S
Arrangements(S, n) ==
    IF n = 0 THEN {<<>>}
    ELSE LET shorter == Arrangements(S, n - 1)
         IN  shorter \cup
             {Append(p[1], p[2]) :
                 p \in {q \in shorter \X S :
                           /\ Len(q[1]) = n - 1
                           /\ \A i \in DOMAIN q[1] : q[1][i] # q[2]}}

BrandsArgs == {[kind |-> "brands", brands |-> b] : b \in Arrangements(BrandPool, MaxBrands)}

InitBrands ==
    /\ arg \in BrandsArgs
    /\ ret = NoRet
    /\ NoHook

CallExtractBrowserFromBrands ==
    /\ arg.kind = "brands"
    /\ ret = NoRet
    /\ ret' = Ret("extractBrowserFromBrands", arg, extractBrowserFromBrands(arg.brands))
    /\ UNCHANGED <<arg, hookVars>>

NextBrands == CallExtractBrowserFromBrands

SpecBrands == InitBrands /\ [][NextBrands]_vars

\* the table of the claim, highest priority first: the browser and the text
\* its brand carries
Priority == <<
    <<"Edge", "Microsoft Edge">>, <<"Brave", "Brave">>,
    <<"Samsung Internet", "Samsung Internet">>, <<"Vivaldi", "Vivaldi">>,
    <<"Arc", "Arc">>, <<"Opera", "Opera">>, <<"Chrome", "Google Chrome">>,
    <<"Chromium", "Chromium">> >>

\* the least element of a non-empty set of numbers
Least(S) == CHOOSE i \in S : \A j \in S : i <= j

\* C18: browser from brands.  The result is the browser of the
\* highest-priority table entry that some brand of the array matches,
\* wherever that brand stands in the array, with the version of that brand;
\* when no entry matches it is Unknown with the version of the first brand
\* that carries no 'Not' and is not 'Chromium'; it is absent when the array
\* is empty or holds grease entries only.
C18_BrowserFromBrands ==
    ret.fn = "extractBrowserFromBrands" =>
        LET brands == ret.input.brands
            carries(k, i) == TestI(Priority[i][2], brands[k].brand)
            matched == {i \in DOMAIN Priority : \E k \in DOMAIN brands : carries(k, i)}
            usable == {k \in DOMAIN brands :
                          ~includes(brands[k].brand, "Not") /\ brands[k].brand # "Chromium"}
        IN  IF matched # {}
            THEN LET top == Least(matched)
                     k == Least({j \in DOMAIN brands : carries(j, top)})
                 IN  ret.value = BrowserInfo(Priority[top][1], brands[k].version, NoStr)
            ELSE IF usable # {}
            THEN ret.value = BrowserInfo("Unknown", brands[Least(usable)].version, NoStr)
            ELSE ret.value = Undefined

\* the generic brands stand before the brand of Edge, and Edge is returned
\* with its own version
C18_Witness ==
    /\ ret.fn = "extractBrowserFromBrands"
    /\ Len(ret.input.brands) = 3
    /\ ret.input.brands[1].brand = "Chromium"
    /\ ret.input.brands[2].brand = "Google Chrome"
    /\ ret.input.brands[3].brand = "Microsoft Edge"
    /\ ret.value = BrowserInfo("Edge", "119", NoStr)

----------------------------------------------------------------------------
(* Device detection and browser detection on strings without tokens;
   checked with the extractors on malformed and well-formed input *)

\* the tokens detectDeviceFromUA looks for
PlatformTokens == {"Android", "iPhone", "iPad", "iPod", "Win", "Mac", "CrOS", "Linux"}

\* C21 as stated: asymmetry of device detection.  On a non-empty string without any
\* platform token detectDeviceFromUA returns the structure {isMobile: false,
\* platform: Unknown, device: Unknown}; it returns absent only for a
\* User-Agent that is empty or no string; detectBrowser returns absent for a
\* string that matches no catalog entry.
C21_Asymmetry ==
    /\ ret.fn = "detectDeviceFromUA" =>
           LET userAgent == ret.input.userAgent
           IN  /\ (IsNonEmptyString(userAgent)
                      /\ \A t \in PlatformTokens : ~TestI(t, userAgent)) =>
                      ret.value = DeviceInfo(FALSE, "Unknown", "Unknown")
               /\ ret.value = Undefined => userAgent \in {NoStr, NoMatch, ""}
    /\ ret.fn = "detectBrowser" =>
           LET userAgent == ret.input.userAgent
           IN  (IsNonEmptyString(userAgent)
                   /\ \A i \in DOMAIN BROWSER_PATTERNS :
                          ~Test(BROWSER_PATTERNS[i].pattern, userAgent)) =>
                   ret.value = Undefined

\* C21, amended: as stated, except that detectBrowser returns absent for a
\* string that matches no catalog entry only on a navigator without the
\* brave API; with that API it returns Brave for every non-empty string.
C21_AsymmetryExceptBrave ==
    /\ ret.fn = "detectDeviceFromUA" =>
           LET userAgent == ret.input.userAgent
           IN  /\ (IsNonEmptyString(userAgent)
                      /\ \A t \in PlatformTokens : ~TestI(t, userAgent)) =>
                      ret.value = DeviceInfo(FALSE, "Unknown", "Unknown")
               /\ ret.value = Undefined => userAgent \in {NoStr, NoMatch, ""}
    /\ ret.fn = "detectBrowser" =>
           LET userAgent == ret.input.userAgent
           IN  /\ (IsNonEmptyString(userAgent) /\ ~ret.input.brave
                      /\ \A i \in DOMAIN BROWSER_PATTERNS :
                             ~Test(BROWSER_PATTERNS[i].pattern, userAgent)) =>
                      ret.value = Undefined
               /\ (IsNonEmptyString(userAgent) /\ ret.input.brave) =>
                      /\ IsDefined(ret.value)
                      /\ ret.value.name = "Brave"

\* a string of blanks carries no token: the device is the Unknown structure
C21_Witness ==
    /\ ret.fn = "detectDeviceFromUA"
    /\ ret.input.userAgent = "   "
    /\ ret.value = DeviceInfo(FALSE, "Unknown", "Unknown")

----------------------------------------------------------------------------
(* The device of the client hints; checked with the device extractors *)

\* the platform the claim gives a platform string: the first marker, in the
\* order of the claim, that the string contains in any case
ClaimedPlatform(p) ==
    IF TestI("android", p) THEN "Android"
    ELSE IF TestI("windows", p) THEN "Windows"
    ELSE IF TestI("mac", p) THEN "Mac OS"
    ELSE IF TestI("linux", p) THEN "Linux"
    ELSE IF TestI("chrome os", p) \/ TestI("chromeos", p) THEN "Chrome OS"
    ELSE IF TestI("ios", p) \/ TestI("iphone", p) \/ TestI("ipad", p) THEN "iOS"
    ELSE "Unknown"

\* the device the claim gives a platform and a mobile flag
ClaimedDevice(platform, mobile) ==
    CASE platform = "Android" /\ mobile -> "Android"
      [] platform = "Android" /\ ~mobile -> "Tablet"
      [] platform = "iOS" /\ mobile -> "iPhone"
      [] platform = "iOS" /\ ~mobile -> "iPad"
      [] platform \notin {"Android", "iOS"} /\ mobile -> "Unknown"
      [] platform \notin {"Android", "iOS"} /\ ~mobile -> "Desktop PC"

\* C24: client-hints device mapping.  For a hints object with a string
\* platform and a boolean mobile flag detectDeviceFromClientHints returns a
\* DeviceInfo whose isMobile is the flag, whose platform is the mapping of
\* the platform string and whose device follows from the two; for a
\* platform that cannot be read it returns the Unknown device.
C24_ClientHintsDevice ==
    ret.fn = "detectDeviceFromClientHints" =>
        /\ IsDefined(ret.value)
        /\ IF IsDefined(ret.input) /\ ret.input.platform \notin NonStrings
           THEN /\ ret.value.isMobile = ret.input.mobile
                /\ ret.value.platform = ClaimedPlatform(ret.input.platform)
                /\ ret.value.device =
                       ClaimedDevice(ClaimedPlatform(ret.input.platform), ret.input.mobile)
           ELSE ret.value = DeviceInfo(FALSE, "Unknown", "Unknown")

\* a platform written in capitals, not mobile: an Android tablet
C24_Witness ==
    /\ ret.fn = "detectDeviceFromClientHints"
    /\ ret.input.platform = "ANDROID"
    /\ ~ret.input.mobile
    /\ ret.value = DeviceInfo(FALSE, "Android", "Tablet")

----------------------------------------------------------------------------
(* The order of the platform checks; checked with the device extractors *)

\* the platform tokens in the order of the claim, with the platform each
\* stands for
TokenOrder == <<
    <<"Android", "Android">>, <<"iPhone", "iOS">>, <<"iPad", "iOS">>, <<"iPod", "iOS">>,
    <<"Win", "Windows">>, <<"Mac", "Mac OS">>, <<"CrOS", "Chrome OS">>, <<"Linux", "Linux">> >>

\* the positions in TokenOrder of the tokens the string under call carries
TokensIn == {i \in DOMAIN TokenOrder : HasToken(TokenOrder[i][1])}

\* C25: first match wins.  A string with several platform tokens is
\* classified by the earliest of them in the order Android, iPhone, iPad,
\* iPod, Windows, Mac, Chrome OS, Linux; the touch points make an iPad only
\* of a string whose first token is Mac, so that an iPhone or iPod string
\* with the Mac token is iPhone or iPod, and mobile, for any touch points.
C25_FirstMatchWins ==
    (ret.fn = "detectDeviceFromUA" /\ IsDefined(ret.value) /\ TokensIn # {}) =>
        LET first == Least(TokensIn)
            token == TokenOrder[first][1]
            touch == ret.input.maxTouchPoints
        IN  /\ token # "Mac" => ret.value.platform = TokenOrder[first][2]
            /\ token = "Mac" =>
                   IF touch # <<>> /\ touch[1] >= 2
                   THEN ret.value = DeviceInfo(FALSE, "iOS", "iPad")
                   ELSE ret.value = DeviceInfo(FALSE, "Mac OS", "Desktop PC")
            /\ token = "iPhone" => ret.value = DeviceInfo(TRUE, "iOS", "iPhone")
            /\ token = "iPad" => ret.value = DeviceInfo(FALSE, "iOS", "iPad")
            /\ token = "iPod" => ret.value = DeviceInfo(TRUE, "iOS", "iPod")
            /\ token = "CrOS" => ret.value = DeviceInfo(FALSE, "Chrome OS", "Desktop PC")

\* an iPhone string that names the Mac, on a navigator with two touch
\* points, stays an iPhone
C25_Witness ==
    /\ ret.fn = "detectDeviceFromUA"
    /\ arg.words = <<Word("iPhone", "iPhone", NoStr), Word("like Mac OS X", "Mac", NoStr)>>
    /\ ret.input.maxTouchPoints = <<2>>
    /\ ret.value = DeviceInfo(TRUE, "iOS", "iPhone")

----------------------------------------------------------------------------
(* The standalone predicates next to detectDeviceFromUA; checked with the
   extractors on malformed and well-formed input *)

\* C26: the standalone predicates mirror device detection.  On a navigator
\* with a non-empty User-Agent string isIPad is true exactly when
\* detectDeviceFromUA returns the device iPad; isAndroidTablet is true
\* exactly when the string has the Android token and not the Mobile token,
\* which is exactly when detectDeviceFromUA returns the device Tablet.
C26_PredicatesMirror ==
    /\ (ret.fn = "isIPad" /\ IsNonEmptyString(ret.input.userAgent)) =>
           (ret.value.result <=> detectDeviceFromUA(ret.input).device = "iPad")
    /\ (ret.fn = "isAndroidTablet" /\ IsNonEmptyString(ret.input)) =>
           /\ ret.value.result <=>
                  (TestI("Android", ret.input) /\ ~TestI("Mobile", ret.input))
           /\ ret.value.result <=> detectDeviceFromUA(arg.navigator).device = "Tablet"

----------------------------------------------------------------------------
(* mergeHighEntropyData, called on the low-entropy results and on responses
   that carry brands, mobile and platform of their own *)

\* the fields every response has besides the hints asked for
ResponseBases == {
    [brands |-> <<Brand("Chromium", "120"), Brand("Microsoft Edge", "119")>>,
     mobile |-> TRUE, platform |-> "iOS"],
    [brands |-> <<>>, mobile |-> FALSE, platform |-> "Windows"] }

FullResponses == {b @@ v : b \in ResponseBases, v \in Responses \ {Null}}

MergeArgs ==
    {[kind |-> "merge", agent |-> extractLowEntropyData(u), response |-> v] :
        u \in HookUserAgentData, v \in FullResponses}

InitMerge ==
    /\ arg \in MergeArgs
    /\ ret = NoRet
    /\ NoHook

\* an agent object that the merge writes into
AgentAfterMergeInPlace(a, highEntropyValues) == mergeHighEntropyData(a, highEntropyValues)

\* the agent object given to mergeHighEntropyData, after the call: every
\* write goes to the copy { ...agent } and to fresh device and browser objects
AgentAfterMerge(a, highEntropyValues) == a

CallMerge ==
    /\ arg.kind = "merge"
    /\ ret = NoRet
    /\ ret' = Ret("mergeHighEntropyData", arg, mergeHighEntropyData(arg.agent, arg.response))
    /\ arg' = [arg EXCEPT !.agent = AgentAfterMerge(arg.agent, arg.response)]
    /\ UNCHANGED hookVars

NextMerge == CallMerge

SpecMerge == InitMerge /\ [][NextMerge]_vars

====
